---- MODULE Spec2Model ----
(***************************************************************************)
(* Model of the V2 synthesis engine of construction-site-intel (the        *)
(* module that imports config/v2-rules.json): the rule, action and         *)
(* contingency resolvers, the confidence scorer and the seeded Monte Carlo *)
(* estimator.                                                              *)
(*                                                                         *)
(* Numbers.  TLC evaluates 32-bit signed integers only, so                 *)
(*  - a 32-bit unsigned word (hash, generator state) is a pair <<hi, lo>>  *)
(*    of 16-bit halves and the arithmetic mod 2^32 is done on the halves;  *)
(*  - a JavaScript number that carries a percentage or a number of days is *)
(*    a fixed-point integer counting thousandths (Unit per 1.0);           *)
(*  - the uniform draw state / 2^32 is kept to its 16 leading fractional   *)
(*    bits (the hi half of the state), and Math.sqrt is the floor square   *)
(*    root on the thousandths grid.                                        *)
(* Strings that the code indexes (the seed key) are sequences of UTF-16    *)
(* code units; ids built by concatenation are pairs <<prefix, signalId>>.  *)
(***************************************************************************)
EXTENDS Integers, Sequences, FiniteSets, TLC

VARIABLES
  config,       \* the loaded rule configuration (config/v2-rules.json)
  inSignals,    \* the signal list of the request
  inWarnings,   \* the warning list of the request
  costDrivers,  \* what buildCostDrivers returned
  pmActions,    \* what buildPMActions returned
  contingency,  \* what buildContingency returned
  confidence,   \* what scoreConfidence returned
  returned,     \* the functions that have returned for this request
  inArgs,       \* the arguments of the last buildProbabilisticEstimate call
  rngState,     \* the closure variable `state` of the generator last created
  estimate,     \* what the last buildProbabilisticEstimate call returned
  calls,        \* the invocations of buildProbabilisticEstimate so far, in order
  sample,       \* the last triangularSample call: arguments and result
  bidAssumptions, \* what buildBidAssumptions returned
  loadState,    \* "pending" until the engine module has been evaluated
  thrown,       \* the functions that ended this request by throwing
  loaded,       \* the configuration as the import left it (history)
  received,     \* the signal list as the caller handed it over (history)
  served,       \* how often each function has returned since the load (history)
  body,         \* the address of the body posted to the analyze route
  pc,           \* where the analyze route's POST handler stands
  fetched,      \* per external source: the promise of its fetcher
  routeWarnings, \* the array `warnings` of the POST handler
  response,     \* what the POST handler answered
  pageData,     \* the state `data` of the V2 page
  jsonFile,     \* the text last downloaded as site-intel-v2.json
  csvFile,      \* the text last downloaded as site-intel-v2.csv
  rngKey,       \* the seed key a generator was created for (history)
  emitted,      \* the closure states behind the values that generator returned (history)
  trials,       \* the locals of the buildProbabilisticEstimate call under way
  sda,          \* the sdaQuery call under way: its arguments, locals and promise
  forms,        \* per page: the states loading and error, and its submissions so far
  homeData      \* the state `data` of the V1 page

EngineVars == <<bidAssumptions, loadState, thrown, loaded, received, served>>

RouteVars == <<body, pc, fetched, routeWarnings, response>>

PageVars == <<pageData, jsonFile, csvFile>>

RngVars == <<rngKey, emitted>>

FormVars == <<forms, homeData>>

vars == <<config, inSignals, inWarnings, costDrivers, pmActions, contingency,
          confidence, returned, inArgs, rngState, estimate, calls, sample,
          EngineVars, RouteVars,
    PageVars, RngVars, trials, sda, FormVars>>

----------------------------------------------------------------------------
(* 32-bit words as pairs of 16-bit halves *)

Half == 65536

Byte == 256

Word(hi, lo) == <<hi, lo>>

\* x * y mod 2^16 for 16-bit x, y, without leaving 31 bits
MulMod16(x, y) ==
  (x * (y % Byte) + ((x * (y \div Byte)) % Byte) * Byte) % Half

\* Math.imul(a, b): the low 32 bits of the product of two 32-bit words
Imul(a, b) ==
  LET t0    == a[2] * (b[2] % Byte)
      t1    == a[2] * (b[2] \div Byte)
      low   == (t1 % Byte) * Byte + t0
      carry == (low \div Half) + (t1 \div Byte)
  IN  Word((MulMod16(a[1], b[2]) + MulMod16(a[2], b[1]) + carry) % Half,
           low % Half)

\* (a + b) >>> 0
Add32(a, b) ==
  LET low == a[2] + b[2]
  IN  Word((a[1] + b[1] + (low \div Half)) % Half, low % Half)

RECURSIVE Xor16(_, _)
\* bitwise exclusive or of two 16-bit values
Xor16(x, y) ==
  IF x = 0 THEN y
  ELSE IF y = 0 THEN x
  ELSE ((x + y) % 2) + 2 * Xor16(x \div 2, y \div 2)

----------------------------------------------------------------------------
(* Seeding and the generator *)

\* 2166136261 = 0x811C9DC5
FnvOffset == Word(33052, 40389)

\* 16777619 = 0x01000193
FnvPrime == Word(256, 403)

\* 1664525 = 0x0019660D
LcgMul == Word(25, 26125)

\* 1013904223 = 0x3C6EF35F
LcgInc == Word(15470, 62303)

RECURSIVE HashFrom(_, _, _)
HashFrom(hash, input, i) ==
  IF i > Len(input) THEN hash
  ELSE HashFrom(Imul(Word(hash[1], Xor16(hash[2], input[i])), FnvPrime), input, i + 1)

\* hashSeed(input): input is the sequence of charCodeAt values
hashSeed(input) == HashFrom(FnvOffset, input, 1)

\* a generator created once per process: a later call goes on from the
\* state the earlier invocation left
createRng_shared(seed) ==
  IF rngState # Word(0, 0) THEN rngState
  ELSE IF seed = Word(0, 0) THEN Word(0, 1) ELSE seed

\* createRng that takes every seed as it is
createRng_asIs(seed) == seed

\* createRng(seed): the initial closure state, seed || 1
createRng(seed) == IF seed = Word(0, 0) THEN Word(0, 1) ELSE seed

\* one call of the closure: the new state
RngNext(st) == Add32(Imul(LcgMul, st), LcgInc)

\* the value the closure returns, state / 4294967296, on 16 fractional bits
RngValue(st) == st[1]

----------------------------------------------------------------------------
(* Fixed-point numbers: thousandths *)

Unit == 1000

Min(a, b) == IF a <= b THEN a ELSE b

Max(a, b) == IF a >= b THEN a ELSE b

\* floor(a * p / 2^16) for 0 <= a <= 2^16 and 0 <= p < 2^31, without
\* leaving 31 bits
MulShift16(a, p) ==
  IF a = Half THEN p
  ELSE LET ph == p \div Half
           pl == p % Half
       IN  a * ph + ((a * (pl \div Byte) + ((a * (pl % Byte)) \div Byte)) \div Byte)

RECURSIVE SqrtBetween(_, _, _)
SqrtBetween(x, lo, hi) ==
  IF lo >= hi THEN lo
  ELSE LET mid == (lo + hi + 1) \div 2
       IN  IF mid * mid <= x THEN SqrtBetween(x, mid, hi)
           ELSE SqrtBetween(x, lo, mid - 1)

\* Math.sqrt on the grid: the floor square root (46340^2 < 2^31)
Sqrt(x) == SqrtBetween(x, 0, 46340)

\* the sample for the state the generator has after its call, with the sign
\* of the upper branch wrong
SampleFrom_plus(min, max, mode, next) ==
  [value |-> IF RngValue(next) * (max - min) < (mode - min) * Half
             THEN min + Sqrt(MulShift16(RngValue(next), (max - min) * (mode - min)))
             ELSE max + Sqrt(MulShift16(Half - RngValue(next), (max - min) * (max - mode))),
   rng   |-> next]

\* triangularSample with the sign of the upper branch wrong
triangularSample_plus(min, max, mode, rng) ==
  IF max <= min THEN [value |-> min, rng |-> rng]
  ELSE SampleFrom_plus(min, max, mode, RngNext(rng))

\* the lines after const u = rng(): next is the closure state after the call,
\* u = RngValue(next), split = (mode - min) / (max - min)
SampleFrom(min, max, mode, next) ==
  [value |-> IF RngValue(next) * (max - min) < (mode - min) * Half
             THEN min + Sqrt(MulShift16(RngValue(next), (max - min) * (mode - min)))
             ELSE max - Sqrt(MulShift16(Half - RngValue(next), (max - min) * (max - mode))),
   rng   |-> next]

\* triangularSample(min, max, mode, rng): rng is the closure state before the
\* call; the result carries the sample and the closure state after it (the
\* generator is called once, and only when max > min)
triangularSample(min, max, mode, rng) ==
  IF max <= min THEN [value |-> min, rng |-> rng]
  ELSE SampleFrom(min, max, mode, RngNext(rng))

RECURSIVE InsertBefore(_, _, _, _)
\* insertion that puts x before the elements it compares equal to
InsertBefore(order, x, i, cmp) ==
  IF i > Len(order) THEN Append(order, x)
  ELSE IF cmp[order[i], x] >= 0
       THEN SubSeq(order, 1, i - 1) \o <<x>> \o SubSeq(order, i, Len(order))
       ELSE InsertBefore(order, x, i + 1, cmp)

RECURSIVE OrderBefore(_, _, _, _)
OrderBefore(n, i, order, cmp) ==
  IF i > n THEN order
  ELSE OrderBefore(n, i + 1, InsertBefore(order, i, 1, cmp), cmp)

\* a sort that is not stable: equal elements come out in reverse
Sort_unstable(s, cmp) ==
  LET order == OrderBefore(Len(s), 1, <<>>, cmp)
  IN  [k \in DOMAIN s |-> s[order[k]]]

\* the elements of s in the order of the indices
Permuted(s, order) == [k \in DOMAIN s |-> s[order[k]]]

\* Array.prototype.sort(compareFn): a stable sort (ECMAScript 2019); cmp[i, j]
\* is compareFn(s[i], s[j]), and an element goes before another when the
\* comparison of the two is negative
Sort(s, cmp) ==
  Permuted(s, SortSeq([i \in DOMAIN s |-> i], LAMBDA a, b : cmp[a, b] < 0))

\* the comparator the wrong way round
Ascending_descending(a, b) == b - a

\* the comparator (a, b) => a - b of pctTotals.sort and dayTotals.sort
Ascending(a, b) == a - b

\* percentile returning the rank it computed instead of the element there
percentile_rank(sorted, p) ==
  IF Len(sorted) = 0 THEN 0
  ELSE (Min(Len(sorted) - 1, Max(0, (p * Len(sorted)) \div 100)) + 1) * Unit

\* percentile by the other nearest-rank rule: the element at ceil(p * n / 100)
percentile_ceil(sorted, p) ==
  IF Len(sorted) = 0 THEN 0
  ELSE sorted[Min(Len(sorted) - 1, Max(0, ((p * Len(sorted) + 99) \div 100) - 1)) + 1]

\* percentile(sorted, p): nearest rank, sequences are 1-based
percentile(sorted, p) ==
  IF Len(sorted) = 0 THEN 0
  ELSE sorted[Min(Len(sorted) - 1, Max(0, (p * Len(sorted)) \div 100)) + 1]

\* round2(n) = Math.round(n * 100) / 100: to the nearest hundredth, a half
\* going up
round2(n) == (((n * 100) + (Unit \div 2)) \div Unit) * (Unit \div 100)

toTriple(p10, p50, p90) ==
  [p10 |-> round2(p10), p50 |-> round2(p50), p90 |-> round2(p90)]

----------------------------------------------------------------------------
(* The resolvers *)

\* a value of Array.prototype.map's callback that the filter drops
Null == [null |-> TRUE]

\* pair(values): [values[0] ?? 0, values[1] ?? values[0]]
pair(values) ==
  LET first  == IF Len(values) >= 1 THEN values[1] ELSE 0
      second == IF Len(values) >= 2 THEN values[2] ELSE first
  IN  <<first, second>>

\* a rank that counts an unknown severity like a low one
rankSeverity_unknownOne(severity) ==
  IF severity = "high" THEN 3
  ELSE IF severity = "medium" THEN 2
  ELSE 1

rankSeverity(severity) ==
  IF severity = "high" THEN 3
  ELSE IF severity = "medium" THEN 2
  ELSE IF severity = "low" THEN 1
  ELSE 0

\* asSeverity that lets an unknown severity through as the lowest one
asSeverity_lenient(severity) ==
  IF severity = "high" \/ severity = "medium" THEN severity ELSE "low"

\* asSeverity(severity): the severity, or "null" for anything else
asSeverity(severity) ==
  IF severity = "high" \/ severity = "medium" \/ severity = "low"
  THEN severity ELSE "null"

\* new Map(signals.map(s => [s.id, s])): the last signal of each id
ById(signals) ==
  [id \in {signals[i].id : i \in DOMAIN signals} |->
     signals[CHOOSE i \in DOMAIN signals :
               /\ signals[i].id = id
               /\ \A j \in DOMAIN signals : signals[j].id = id => j <= i]]

\* the callback reading the deltas of severity high whatever the severity is
DriverOfRule_highDelta(rule, byId) ==
  IF rule.signalId \notin DOMAIN byId THEN Null
  ELSE LET signal   == byId[rule.signalId]
           severity == asSeverity(signal.severity)
       IN  IF severity = "null" THEN Null
           ELSE LET delta == rule.deltas["high"]
                    cost  == pair(delta.pct)
                    days  == pair(delta.days)
                IN  [id                         |-> <<"driver", rule.signalId>>,
                     signalId                   |-> rule.signalId,
                     label                      |-> signal.label,
                     severity                   |-> severity,
                     costCategory               |-> rule.costCategory,
                     impactType                 |-> rule.impactType,
                     estimatedCostDeltaPct      |-> [min |-> cost[1], max |-> cost[2]],
                     estimatedScheduleDeltaDays |-> [min |-> days[1], max |-> days[2]],
                     rationale                  |-> rule.rationale]

\* the callback of config.costRules.map in buildCostDrivers
DriverOfRule(rule, byId) ==
  IF rule.signalId \notin DOMAIN byId THEN Null
  ELSE LET signal   == byId[rule.signalId]
           severity == asSeverity(signal.severity)
       IN  IF severity = "null" THEN Null
           ELSE LET delta == rule.deltas[severity]
                    cost  == pair(delta.pct)
                    days  == pair(delta.days)
                IN  [id                         |-> <<"driver", rule.signalId>>,
                     signalId                   |-> rule.signalId,
                     label                      |-> signal.label,
                     severity                   |-> severity,
                     costCategory               |-> rule.costCategory,
                     impactType                 |-> rule.impactType,
                     estimatedCostDeltaPct      |-> [min |-> cost[1], max |-> cost[2]],
                     estimatedScheduleDeltaDays |-> [min |-> days[1], max |-> days[2]],
                     rationale                  |-> rule.rationale]

NotNull(driver) == driver # Null

BySeverityDesc(a, b) == rankSeverity(b.severity) - rankSeverity(a.severity)

buildCostDrivers(signals) ==
  LET byId   == ById(signals)
      mapped == [k \in DOMAIN config.costRules |-> DriverOfRule(config.costRules[k], byId)]
      kept   == SelectSeq(mapped, NotNull)
  IN  Sort(kept, [i \in DOMAIN kept, j \in DOMAIN kept |-> BySeverityDesc(kept[i], kept[j])])

BaselineAction ==
  [id              |-> <<"action", "baseline">>,
   title           |-> "Proceed with standard preconstruction validation",
   owner           |-> "Project Manager",
   duePhase        |-> "Bid",
   leadTimeDays    |-> 3,
   priority        |-> "low",
   relatedSignalId |-> "baseline"]

\* the loop body that skips unknown signals alone
ActionStep_lowToo(actions, signal) ==
  IF signal.severity = "unknown" THEN actions
  ELSE IF signal.id \notin DOMAIN config.actionLibrary THEN actions
  ELSE LET template == config.actionLibrary[signal.id]
       IN  Append(actions,
                  [id              |-> <<"action", signal.id>>,
                   relatedSignalId |-> signal.id,
                   priority        |-> IF signal.severity = "high" THEN "high" ELSE "medium",
                   title           |-> template.title,
                   owner           |-> template.owner,
                   duePhase        |-> template.duePhase,
                   leadTimeDays    |-> template.leadTimeDays])

\* the body of the for loop of buildPMActions: the actions after one signal
ActionStep(actions, signal) ==
  IF signal.severity = "unknown" \/ signal.severity = "low" THEN actions
  ELSE IF signal.id \notin DOMAIN config.actionLibrary THEN actions
  ELSE LET template == config.actionLibrary[signal.id]
       IN  Append(actions,
                  [id              |-> <<"action", signal.id>>,
                   relatedSignalId |-> signal.id,
                   priority        |-> IF signal.severity = "high" THEN "high" ELSE "medium",
                   title           |-> template.title,
                   owner           |-> template.owner,
                   duePhase        |-> template.duePhase,
                   leadTimeDays    |-> template.leadTimeDays])

RECURSIVE ActionLoop(_, _, _)
ActionLoop(signals, i, actions) ==
  IF i > Len(signals) THEN actions
  ELSE ActionLoop(signals, i + 1, ActionStep(actions, signals[i]))

priorityOrder(priority) ==
  IF priority = "high" THEN 3 ELSE IF priority = "medium" THEN 2 ELSE 1

\* the comparator the wrong way round: ascending priority
ByPriorityDesc_ascending(a, b) == priorityOrder(a.priority) - priorityOrder(b.priority)

ByPriorityDesc(a, b) == priorityOrder(b.priority) - priorityOrder(a.priority)

\* buildPMActions without the baseline substitution
buildPMActions_noBaseline(signals) ==
  LET actions == ActionLoop(signals, 1, <<>>)
  IN  Sort(actions, [i \in DOMAIN actions, j \in DOMAIN actions |->
                       ByPriorityDesc(actions[i], actions[j])])

buildPMActions(signals) ==
  LET matched == ActionLoop(signals, 1, <<>>)
      actions == IF Len(matched) = 0 THEN <<BaselineAction>> ELSE matched
  IN  Sort(actions, [i \in DOMAIN actions, j \in DOMAIN actions |->
                       ByPriorityDesc(actions[i], actions[j])])

RECURSIVE ScoreFrom(_, _, _)
\* the score loop of buildContingency
ScoreFrom(signals, i, score) ==
  IF i > Len(signals) THEN score
  ELSE ScoreFrom(signals, i + 1, score + rankSeverity(signals[i].severity))

\* the comparator the wrong way round: ascending thresholds
ByMinScoreDesc_ascending(a, b) == a.minScore - b.minScore

ByMinScoreDesc(a, b) == b.minScore - a.minScore

RECURSIVE Find(_, _, _)
\* sortedBands.find(c => score >= c.minScore) ?? sortedBands[length - 1]
Find(sortedBands, score, i) ==
  IF i > Len(sortedBands) THEN sortedBands[Len(sortedBands)]
  ELSE IF score >= sortedBands[i].minScore THEN sortedBands[i]
  ELSE Find(sortedBands, score, i + 1)

buildContingency(signals) ==
  LET score       == ScoreFrom(signals, 1, 0)
      bands       == config.contingencyBands
      sortedBands == Sort(bands, [i \in DOMAIN bands, j \in DOMAIN bands |->
                                    ByMinScoreDesc(bands[i], bands[j])])
      band        == Find(sortedBands, score, 1)
  IN  [minPct |-> band.minPct, maxPct |-> band.maxPct, basis |-> band.basis]

\* the quotient cut off instead of rounded
RoundDiv_floor(num, den) == num \div den

\* Math.round of the quotient num / den (den > 0): a half goes up
RoundDiv(num, den) == (2 * num + den) \div (2 * den)

Known(signal) == signal.value # "Not available" /\ signal.value # "Unknown"

\* scoreConfidence without the floor of 35
scoreConfidence_noFloor(signals, warnings) ==
  LET totalSignals        == IF Len(signals) = 0 THEN 1 ELSE Len(signals)
      knownSignals        == Len(SelectSeq(signals, Known))
      completeness        == RoundDiv(knownSignals * 100, totalSignals)
      warningPenalty      == Min(Len(warnings) * 6, 30)
      availabilityTenths  == Max(0, 100 - completeness) * 4
      confidenceScore     == RoundDiv(10 * (100 - warningPenalty) - availabilityTenths, 10)
  IN  [confidenceScore |-> confidenceScore, dataCompletenessPct |-> completeness]

scoreConfidence(signals, warnings) ==
  LET totalSignals        == IF Len(signals) = 0 THEN 1 ELSE Len(signals)
      knownSignals        == Len(SelectSeq(signals, Known))
      completeness        == RoundDiv(knownSignals * 100, totalSignals)
      warningPenalty      == Min(Len(warnings) * 6, 30)
      \* availabilityPenalty = Max(0, 100 - completeness) * 0.4, in tenths
      availabilityTenths  == Max(0, 100 - completeness) * 4
      confidenceScore     == Max(35, RoundDiv(10 * (100 - warningPenalty) - availabilityTenths, 10))
  IN  [confidenceScore |-> confidenceScore, dataCompletenessPct |-> completeness]

\* the test of the two clauses that lets a medium signal through as well
HasHigh_medium(signals, id) ==
  \E i \in DOMAIN signals :
    signals[i].id = id /\ signals[i].severity \in {"high", "medium"}

\* signals.some(s => s.id === id && s.severity === "high")
HasHigh(signals, id) ==
  \E i \in DOMAIN signals : signals[i].id = id /\ signals[i].severity = "high"

\* the array `assumptions` of buildBidAssumptions after the two pushes
Pushed(assumptions, signals) ==
  LET flood == IF HasHigh(signals, "flood-zone")
               THEN Append(assumptions, config.conditionalBidAssumptions.highFlood)
               ELSE assumptions
  IN  IF HasHigh(signals, "wildfire-risk")
      THEN Append(flood, config.conditionalBidAssumptions.highFire)
      ELSE flood

buildBidAssumptions(signals) == Pushed(config.baselineBidAssumptions, signals)

\* the pushes of buildBidAssumptions landing on the configuration's own array
BaselineAfter_shared(signals) == Pushed(config.baselineBidAssumptions, signals)

\* config.baselineBidAssumptions after buildBidAssumptions: the pushes go to
\* the copy [...config.baselineBidAssumptions]
BaselineAfter(signals) == config.baselineBidAssumptions

\* the sort of buildContingency reordering the configuration's own ladder
BandsAfter_inPlace ==
  Sort(config.contingencyBands,
       [i \in DOMAIN config.contingencyBands, j \in DOMAIN config.contingencyBands |->
          ByMinScoreDesc(config.contingencyBands[i], config.contingencyBands[j])])

\* config.contingencyBands after buildContingency: the sort reorders the copy
\* [...config.contingencyBands]
BandsAfter == config.contingencyBands

\* rule.deltas[severity] is undefined for a rule the map callback reaches with
\* a signal of that severity, and reading delta.pct throws a TypeError
DeltaMissing(rule, byId) ==
  /\ rule.signalId \in DOMAIN byId
  /\ asSeverity(byId[rule.signalId].severity) # "null"
  /\ asSeverity(byId[rule.signalId].severity) \notin DOMAIN rule.deltas

CostDriversThrow(signals) ==
  \E k \in DOMAIN config.costRules : DeltaMissing(config.costRules[k], ById(signals))

\* find() and sortedBands[length - 1] are both undefined on an empty ladder,
\* and reading band.minPct throws a TypeError
ContingencyThrows == Len(config.contingencyBands) = 0

----------------------------------------------------------------------------
(* The Monte Carlo estimator *)

\* triangularSample(pctMin, pctMax, pctMode, rng) for a driver
CostSample(driver, rng) ==
  triangularSample(driver.estimatedCostDeltaPct.min,
                   driver.estimatedCostDeltaPct.max,
                   (driver.estimatedCostDeltaPct.min + driver.estimatedCostDeltaPct.max) \div 2,
                   rng)

\* triangularSample(dayMin, dayMax, dayMode, rng) for a driver
ScheduleSample(driver, rng) ==
  triangularSample(driver.estimatedScheduleDeltaDays.min,
                   driver.estimatedScheduleDeltaDays.max,
                   (driver.estimatedScheduleDeltaDays.min + driver.estimatedScheduleDeltaDays.max) \div 2,
                   rng)

RECURSIVE DriverLoop(_, _, _, _, _)
RECURSIVE DrawSchedule(_, _, _, _, _)
RECURSIVE AddSamples(_, _, _, _, _, _)

\* pctSum += pct; daySum += day; and on to the next driver
AddSamples(drivers, k, pctValue, day, pctSum, daySum) ==
  DriverLoop(drivers, k + 1, day.rng, pctSum + pctValue, daySum + day.value)

\* the schedule sample is drawn from the generator as the cost sample left it
DrawSchedule(drivers, k, pct, pctSum, daySum) ==
  AddSamples(drivers, k, pct.value, ScheduleSample(drivers[k], pct.rng), pctSum, daySum)

\* the inner loop with the schedule sample drawn before the cost sample
DriverLoop_scheduleFirst(drivers, k, rng, pctSum, daySum) ==
  IF k > Len(drivers) THEN [pctSum |-> pctSum, daySum |-> daySum, rng |-> rng]
  ELSE DriverLoop(drivers, k + 1,
                  CostSample(drivers[k], ScheduleSample(drivers[k], rng).rng).rng,
                  pctSum + CostSample(drivers[k], ScheduleSample(drivers[k], rng).rng).value,
                  daySum + ScheduleSample(drivers[k], rng).value)

\* the inner loop of a trial: for each driver the cost sample is drawn
\* before the schedule sample
DriverLoop(drivers, k, rng, pctSum, daySum) ==
  IF k > Len(drivers) THEN [pctSum |-> pctSum, daySum |-> daySum, rng |-> rng]
  ELSE DrawSchedule(drivers, k, CostSample(drivers[k], rng), pctSum, daySum)

RECURSIVE TrialLoop(_, _, _, _, _, _)
RECURSIVE PushTrial(_, _, _, _, _, _)

\* pctTotals.push(pctSum); dayTotals.push(daySum); and on to the next trial
PushTrial(drivers, sampleSize, i, trial, pctTotals, dayTotals) ==
  TrialLoop(drivers, sampleSize, i + 1, trial.rng,
            Append(pctTotals, trial.pctSum), Append(dayTotals, trial.daySum))

\* the loop over the trials
TrialLoop(drivers, sampleSize, i, rng, pctTotals, dayTotals) ==
  IF i >= sampleSize THEN [pctTotals |-> pctTotals, dayTotals |-> dayTotals, rng |-> rng]
  ELSE PushTrial(drivers, sampleSize, i, DriverLoop(drivers, 1, rng, 0, 0), pctTotals, dayTotals)

\* no baselineCostUsd argument (undefined)
NoBaseline == -1

\* no sampleSize argument (undefined)
NoSampleSize == -1

DefaultSampleSize == 2000

\* const sampleSize = args.sampleSize ?? 2000
SampleSizeOf(args) ==
  IF args.sampleSize = NoSampleSize THEN DefaultSampleSize ELSE args.sampleSize

\* toUsd without the rounding
toUsd_raw(pct, baselineCostUsd) == (pct * baselineCostUsd) \div 100

\* toUsd(pct) = round2((pct / 100) * baselineCostUsd): pct in thousandths of
\* a percent, the baseline in whole dollars, the result in thousandths
toUsd(pct, baselineCostUsd) == round2((pct * baselineCostUsd) \div 100)

\* totals.sort((a, b) => a - b)
SortAscending(totals) ==
  Sort(totals, [i \in DOMAIN totals, j \in DOMAIN totals |-> Ascending(totals[i], totals[j])])

\* toTriple(percentile(sorted, 10), percentile(sorted, 50), percentile(sorted, 90))
Percentiles(sorted) ==
  toTriple(percentile(sorted, 10), percentile(sorted, 50), percentile(sorted, 90))

\* the result record, with impactCostUsd when a baseline above 0 was given;
\* rng is the closure state the generator is left in
Result(args, impactPct, scheduleDays, rng) ==
  [baselineCostUsd  |-> args.baselineCostUsd,
   impactPct        |-> impactPct,
   scheduleDays     |-> scheduleDays,
   sampleSize       |-> SampleSizeOf(args),
   hasImpactCostUsd |-> args.baselineCostUsd # NoBaseline /\ args.baselineCostUsd > 0,
   impactCostUsd    |-> IF args.baselineCostUsd # NoBaseline /\ args.baselineCostUsd > 0
                        THEN [p10 |-> toUsd(impactPct.p10, args.baselineCostUsd),
                              p50 |-> toUsd(impactPct.p50, args.baselineCostUsd),
                              p90 |-> toUsd(impactPct.p90, args.baselineCostUsd)]
                        ELSE [p10 |-> 0, p50 |-> 0, p90 |-> 0],
   rng              |-> rng]

\* the part of buildProbabilisticEstimate after the trial loop
Summarise(args, totals) ==
  Result(args, Percentiles(SortAscending(totals.pctTotals)),
         Percentiles(SortAscending(totals.dayTotals)), totals.rng)

\* buildProbabilisticEstimate(args): the returned record, and in rng the
\* closure state the generator is left in
buildProbabilisticEstimate(args) ==
  Summarise(args, TrialLoop(args.costDrivers, SampleSizeOf(args), 0,
                            createRng(hashSeed(args.seedKey)), <<>>, <<>>))

----------------------------------------------------------------------------
(* Inputs *)

MaxSignals == 3

MaxRules == 3

MaxBands == 2

MaxWarnings == 6

SignalIds == {"flood-zone", "wildfire-risk", "site-slope"}

LabelOf(id) ==
  IF id = "flood-zone" THEN "Flood Zone"
  ELSE IF id = "wildfire-risk" THEN "Wildfire Risk"
  ELSE "Local Slope"

\* the sequences of at most n elements of S without a repeated element
RECURSIVE Arrangements(_, _)
Arrangements(S, n) ==
  IF n = 0 THEN {<<>>}
  ELSE LET shorter == Arrangements(S, n - 1)
       IN  shorter \cup
           {Append(q, x) : <<q, x>> \in {<<q, x>> \in shorter \X S :
                                            \A i \in DOMAIN q : q[i] # x}}

\* the sequences of at most n elements of S
RECURSIVE SeqsUpTo(_, _)
SeqsUpTo(S, n) ==
  IF n = 0 THEN {<<>>}
  ELSE LET shorter == SeqsUpTo(S, n - 1)
       IN  shorter \cup {Append(q, x) : <<q, x>> \in shorter \X S}

\* the signal lists buildSignals and buildAdvancedSignals can hand over: every
\* id at most once, each signal with one of the given <<severity, value>> pairs
SignalLists(pairs) ==
  UNION {
    {[i \in DOMAIN ids |-> [id       |-> ids[i],
                            label    |-> LabelOf(ids[i]),
                            severity |-> f[i][1],
                            value    |-> f[i][2]]] : f \in [DOMAIN ids -> pairs]}
    : ids \in Arrangements(SignalIds, MaxSignals)}

SeverityPairs ==
  {<<"high", "AE">>, <<"medium", "D">>, <<"low", "X">>, <<"unknown", "Not available">>}

ValuePairs ==
  {<<"low", "X">>, <<"medium", "D">>, <<"unknown", "Not available">>, <<"unknown", "Unknown">>}

\* deltas of the rule of a signal id, in thousandths: all three severities
DeltasOf(id) ==
  LET base == IF id = "flood-zone" THEN 1000
              ELSE IF id = "wildfire-risk" THEN 2000 ELSE 3000
  IN  [high   |-> [pct |-> <<base + 4000, base + 11000>>, days |-> <<base + 9000, base + 24000>>],
       medium |-> [pct |-> <<base + 1000, base + 5000>>,  days |-> <<base + 4000, base + 11000>>],
       low    |-> [pct |-> <<base, base + 1000>>,         days |-> <<0, base + 2000>>]]

RuleOf(id) ==
  [signalId     |-> id,
   costCategory |-> IF id = "flood-zone" THEN "Sitework" ELSE "General Conditions",
   impactType   |-> IF id = "flood-zone" THEN "capex" ELSE "schedule",
   deltas       |-> DeltasOf(id),
   rationale    |-> LabelOf(id)]

\* rule tables: at most one rule per signal id, in any order
RuleTables ==
  {[k \in DOMAIN ids |-> RuleOf(ids[k])] : ids \in Arrangements(SignalIds, MaxRules)}

TemplateOf(id) ==
  [title        |-> LabelOf(id),
   owner        |-> IF id = "flood-zone" THEN "Civil Engineer" ELSE "Project Manager",
   duePhase     |-> IF id = "site-slope" THEN "Bid" ELSE "Permit",
   leadTimeDays |-> IF id = "flood-zone" THEN 14 ELSE 3]

ActionLibraries == {[id \in ids |-> TemplateOf(id)] : ids \in SUBSET SignalIds}

BandPool ==
  {[minScore |-> 0, minPct |-> 3, maxPct |-> 5,  basis |-> "Low"],
   [minScore |-> 2, minPct |-> 5, maxPct |-> 8,  basis |-> "Moderate"],
   [minScore |-> 2, minPct |-> 6, maxPct |-> 9,  basis |-> "Moderate (alt)"],
   [minScore |-> 5, minPct |-> 8, maxPct |-> 12, basis |-> "High"]}

\* ladders: at least one band, thresholds on the scale of the score (>= 0)
Ladders == SeqsUpTo(BandPool, MaxBands) \ {<<>>}

DefaultConfig ==
  [costRules        |-> <<RuleOf("flood-zone"), RuleOf("wildfire-risk")>>,
   actionLibrary    |-> [id \in {"flood-zone"} |-> TemplateOf(id)],
   contingencyBands |-> <<[minScore |-> 0, minPct |-> 3, maxPct |-> 5, basis |-> "Low"],
                          [minScore |-> 5, minPct |-> 8, maxPct |-> 12, basis |-> "High"]>>,
   baselineBidAssumptions |->
     <<[title |-> "Geotechnical report", text |-> "Bid assumes a report before design",
        type |-> "assumption"]>>,
   conditionalBidAssumptions |->
     [highFlood |-> [title |-> "Flood mitigation", text |-> "Allowance for floodproofing",
                     type |-> "allowance"],
      highFire  |-> [title |-> "Wildfire hardening", text |-> "Excludes defensible space work",
                     type |-> "exclusion"]]]

\* the rule of a signal id whose deltas map has no entry for one severity
RuleLacking(id, severity) ==
  [RuleOf(id) EXCEPT !.deltas = [k \in DOMAIN DeltasOf(id) \ {severity} |-> DeltasOf(id)[k]]]

\* the rule of a signal id whose cost range for severity high has max < min
RuleInverted(id) ==
  [RuleOf(id) EXCEPT !.deltas["high"].pct = <<9000, 4000>>]

\* contents of config/v2-rules.json: a sound file, a rule without the low
\* severity, an empty ladder, an inverted range, and two of these together
RuleFiles ==
  {DefaultConfig,
   [DefaultConfig EXCEPT !.costRules = <<RuleLacking("flood-zone", "low"), RuleOf("wildfire-risk")>>],
   [DefaultConfig EXCEPT !.contingencyBands = <<>>],
   [DefaultConfig EXCEPT !.costRules = <<RuleOf("wildfire-risk"), RuleInverted("flood-zone")>>],
   [DefaultConfig EXCEPT !.costRules = <<RuleLacking("site-slope", "high")>>,
                         !.contingencyBands = <<>>]}

NoContingency == [minPct |-> 0, maxPct |-> 0, basis |-> ""]

NoConfidence == [confidenceScore |-> 0, dataCompletenessPct |-> 0]

NoArgs == [costDrivers |-> <<>>, baselineCostUsd |-> NoBaseline, seedKey |-> <<>>, sampleSize |-> 0]

NoEstimate ==
  [baselineCostUsd |-> NoBaseline,
   impactPct |-> [p10 |-> 0, p50 |-> 0, p90 |-> 0],
   scheduleDays |-> [p10 |-> 0, p50 |-> 0, p90 |-> 0],
   sampleSize |-> 0, hasImpactCostUsd |-> FALSE,
   impactCostUsd |-> [p10 |-> 0, p50 |-> 0, p90 |-> 0]]

NoSample ==
  [min |-> 0, max |-> 0, mode |-> 0, rng |-> Word(0, 0), value |-> 0,
   after |-> Word(0, 0), draws |-> 0]

\* no resolver has returned for the request
ResolversIdle ==
  /\ costDrivers = <<>>
  /\ pmActions = <<>>
  /\ contingency = NoContingency
  /\ confidence = NoConfidence
  /\ returned = {}

\* the external sources the analyze route queries
Sources == {"geocoder", "usgs", "fema", "soils", "elevation", "fire"}

Pending == [state |-> "pending"]

\* a posted body without an address
NoBody == [has |-> FALSE, address |-> <<>>]

NoResponse == [status |-> 0]

\* the V2 page before its first analysis: data is null
NoData == [version |-> "none"]

NoFile == <<>>

\* no call of buildProbabilisticEstimate is under way
NoTrials ==
  [phase |-> "idle", sampleSize |-> 0, i |-> 0, pctTotals |-> <<>>, dayTotals |-> <<>>,
   before |-> <<0, 0>>]

TrialsIdle == trials = NoTrials

\* sdaQuery has not been called
NoSda ==
  [phase |-> "idle", script |-> <<>>, maxRetries |-> 0, attempt |-> 0, lastError |-> <<>>,
   log |-> <<>>, value |-> <<>>, error |-> ""]

SdaIdle == sda = NoSda

\* the two pages with a form
Pages == {"v1", "v2"}

\* useState(false), useState(null): nothing submitted yet
NoForm == [error |-> <<>>, loading |-> FALSE, submitted |-> 0, settled |-> 0]

\* no page has been used
FormsIdle ==
  /\ forms = [page \in Pages |-> NoForm]
  /\ homeData = <<>>

\* no generator is followed
RngIdle ==
  /\ rngKey = <<>>
  /\ emitted = <<>>

\* the V2 page holds no result and nothing has been downloaded
PageIdle ==
  /\ pageData = NoData
  /\ jsonFile = NoFile
  /\ csvFile = NoFile

\* no request has been posted to the analyze route
RouteIdle ==
  /\ body = NoBody
  /\ pc = "idle"
  /\ fetched = [s \in Sources |-> Pending]
  /\ routeWarnings = <<>>
  /\ response = NoResponse

\* the exported resolvers
Resolvers ==
  {"buildCostDrivers", "buildPMActions", "buildContingency", "buildBidAssumptions",
   "scoreConfidence"}

NeverServed == [name \in Resolvers |-> 0]

\* the engine module has been evaluated and has served nothing yet
EngineIdle ==
  /\ bidAssumptions = <<>>
  /\ loadState = "loaded"
  /\ thrown = {}
  /\ loaded = config
  /\ received = inSignals
  /\ served = NeverServed
  /\ RouteIdle
  /\ PageIdle
  /\ RngIdle
  /\ TrialsIdle
  /\ SdaIdle
  /\ FormsIdle

\* the estimator has not been called
EstimatorIdle ==
  /\ inArgs = NoArgs
  /\ rngState = Word(0, 0)
  /\ estimate = NoEstimate
  /\ calls = <<>>
  /\ sample = NoSample

----------------------------------------------------------------------------
(* The resolvers as operations on a request *)

ResolverOutputs == <<costDrivers, pmActions, contingency, confidence>>

EstimatorVars == <<inArgs, rngState, estimate, calls, sample>>

\* the variables no resolver call writes
CallFrame == <<inSignals, inWarnings, EstimatorVars, loadState, loaded, received, RouteVars,
    PageVars, RngVars, trials, sda, FormVars>>

\* the call returned: its name joins the functions that have returned
Returns(name) ==
  /\ returned' = returned \cup {name}
  /\ served' = [served EXCEPT ![name] = @ + 1]
  /\ UNCHANGED thrown

\* the call threw: nothing is returned to the caller
Throws(name) ==
  /\ thrown' = thrown \cup {name}
  /\ UNCHANGED <<returned, served>>

\* the functions that may still be called for this request
Callable(name) == loadState = "loaded" /\ name \notin returned \cup thrown

BuildCostDrivers ==
  /\ Callable("buildCostDrivers")
  /\ IF CostDriversThrow(inSignals)
     THEN Throws("buildCostDrivers") /\ UNCHANGED costDrivers
     ELSE Returns("buildCostDrivers") /\ costDrivers' = buildCostDrivers(inSignals)
  /\ UNCHANGED <<config, pmActions, contingency, confidence, bidAssumptions, CallFrame>>

BuildPMActions ==
  /\ Callable("buildPMActions")
  /\ pmActions' = buildPMActions(inSignals)
  /\ Returns("buildPMActions")
  /\ UNCHANGED <<config, costDrivers, contingency, confidence, bidAssumptions, CallFrame>>

BuildContingency ==
  /\ Callable("buildContingency")
  /\ IF ContingencyThrows
     THEN Throws("buildContingency") /\ UNCHANGED contingency
     ELSE Returns("buildContingency") /\ contingency' = buildContingency(inSignals)
  /\ config' = [config EXCEPT !.contingencyBands = BandsAfter]
  /\ UNCHANGED <<costDrivers, pmActions, confidence, bidAssumptions, CallFrame>>

BuildBidAssumptions ==
  /\ Callable("buildBidAssumptions")
  /\ bidAssumptions' = buildBidAssumptions(inSignals)
  /\ Returns("buildBidAssumptions")
  /\ config' = [config EXCEPT !.baselineBidAssumptions = BaselineAfter(inSignals)]
  /\ UNCHANGED <<costDrivers, pmActions, contingency, confidence, CallFrame>>

ScoreConfidence ==
  /\ Callable("scoreConfidence")
  /\ confidence' = scoreConfidence(inSignals, inWarnings)
  /\ Returns("scoreConfidence")
  /\ UNCHANGED <<config, costDrivers, pmActions, contingency, bidAssumptions, CallFrame>>

\* a request against any rule table and any action library
InitRules ==
  /\ config \in {[DefaultConfig EXCEPT !.costRules = t, !.actionLibrary = l] :
                   t \in RuleTables, l \in ActionLibraries}
  /\ inSignals \in SignalLists(SeverityPairs)
  /\ inWarnings = <<>>
  /\ ResolversIdle
  /\ EstimatorIdle
  /\ EngineIdle

NextRules == BuildCostDrivers \/ BuildPMActions

SpecRules == InitRules /\ [][NextRules]_vars

\* a request against any band ladder
InitContingency ==
  /\ config \in {[DefaultConfig EXCEPT !.contingencyBands = l] : l \in Ladders}
  /\ inSignals \in SignalLists(SeverityPairs)
  /\ inWarnings = <<>>
  /\ ResolversIdle
  /\ EstimatorIdle
  /\ EngineIdle

NextContingency == BuildContingency

SpecContingency == InitContingency /\ [][NextContingency]_vars

\* a request with any signal values and any number of warnings
InitConfidence ==
  /\ config = DefaultConfig
  /\ inSignals \in SignalLists(ValuePairs)
  /\ inWarnings \in SeqsUpTo({"USGS design maps unavailable"}, MaxWarnings)
  /\ ResolversIdle
  /\ EstimatorIdle
  /\ EngineIdle

NextConfidence == ScoreConfidence

SpecConfidence == InitConfidence /\ [][NextConfidence]_vars

SecondAssumption ==
  [title |-> "Utilities", text |-> "Excludes off-site utility upgrades", type |-> "exclusion"]

\* baseline lists of the rules file: none, one or two assumptions, in either
\* order
BaselineLists ==
  {<<>>, DefaultConfig.baselineBidAssumptions,
   DefaultConfig.baselineBidAssumptions \o <<SecondAssumption>>,
   <<SecondAssumption>> \o DefaultConfig.baselineBidAssumptions}

\* a request against any baseline list
InitAssumptions ==
  /\ config \in {[DefaultConfig EXCEPT !.baselineBidAssumptions = b] : b \in BaselineLists}
  /\ inSignals \in SignalLists(SeverityPairs)
  /\ inWarnings = <<>>
  /\ ResolversIdle
  /\ EstimatorIdle
  /\ EngineIdle

NextAssumptions == BuildBidAssumptions

SpecAssumptions == InitAssumptions /\ [][NextAssumptions]_vars

----------------------------------------------------------------------------
(* The estimator and the sampler as operations *)

MaxDrivers == 2

MaxSample == 3

MaxCalls == 3

MaxDraws == 6

DriverWith(id, pct, days) ==
  [id                         |-> <<"driver", id>>,
   signalId                   |-> id,
   label                      |-> LabelOf(id),
   severity                   |-> "medium",
   costCategory               |-> RuleOf(id).costCategory,
   impactType                 |-> RuleOf(id).impactType,
   estimatedCostDeltaPct      |-> [min |-> pct[1], max |-> pct[2]],
   estimatedScheduleDeltaDays |-> [min |-> days[1], max |-> days[2]],
   rationale                  |-> RuleOf(id).rationale]

\* drivers with a proper range, with a constant and an inverted range, and
\* with a range that starts below zero (thousandths)
EstimatorDrivers ==
  {DriverWith("flood-zone", <<1000, 3000>>, <<2000, 6000>>),
   DriverWith("wildfire-risk", <<2000, 2000>>, <<4000, 1000>>),
   DriverWith("site-slope", <<-1000, 500>>, <<0, 30>>)}

\* seed keys as sequences of UTF-16 code units: "", "A", "12"
SeedKeys == {<<>>, <<65>>, <<49, 50>>}

\* baselineCostUsd in whole dollars
Baselines == {NoBaseline, 0, 250, -250}

EstimateArgs ==
  [costDrivers     : SeqsUpTo(EstimatorDrivers, MaxDrivers),
   baselineCostUsd : Baselines,
   seedKey         : SeedKeys,
   sampleSize      : 0 .. MaxSample]

\* the arguments of the calls that are repeated and interleaved
ReplayArgs ==
  [costDrivers     : {<<DriverWith("flood-zone", <<1000, 3000>>, <<2000, 6000>>)>>,
                      <<DriverWith("flood-zone", <<1000, 3000>>, <<2000, 6000>>),
                        DriverWith("site-slope", <<-1000, 500>>, <<0, 30>>)>>},
   baselineCostUsd : {NoBaseline, 250},
   seedKey         : {<<65>>, <<49, 50>>},
   sampleSize      : {MaxSample}]

Returned(result) ==
  [baselineCostUsd  |-> result.baselineCostUsd,
   impactPct        |-> result.impactPct,
   scheduleDays     |-> result.scheduleDays,
   sampleSize       |-> result.sampleSize,
   hasImpactCostUsd |-> result.hasImpactCostUsd,
   impactCostUsd    |-> result.impactCostUsd]

\* one invocation of buildProbabilisticEstimate, from createRng to return
Invoke(a, result) ==
  /\ inArgs' = a
  /\ rngState' = result.rng
  /\ estimate' = Returned(result)
  /\ calls' = Append(calls, [args |-> a, result |-> Returned(result)])
  /\ UNCHANGED <<config, inSignals, inWarnings, ResolverOutputs, returned, sample,
                 EngineVars, RouteVars,
    PageVars, RngVars, trials, sda, FormVars>>

BuildProbabilisticEstimate(a) == Invoke(a, buildProbabilisticEstimate(a))

InitEstimator ==
  /\ config = DefaultConfig
  /\ inSignals = <<>>
  /\ inWarnings = <<>>
  /\ ResolversIdle
  /\ EstimatorIdle
  /\ EngineIdle

\* one invocation with any arguments
NextEstimate ==
  \E a \in EstimateArgs : Len(calls) = 0 /\ BuildProbabilisticEstimate(a)

SpecEstimate == InitEstimator /\ [][NextEstimate]_vars

\* invocations one after the other in the same process
NextReplay ==
  \E a \in ReplayArgs : Len(calls) < MaxCalls /\ BuildProbabilisticEstimate(a)

SpecReplay == InitEstimator /\ [][NextReplay]_vars

\* range ends for the sampler, in thousandths
SampleValues == {-1000, 0, 1000, 2500}

\* closure states: after a seed of 1, and the states from which the next
\* draw is 0, just below 1/2, 1/2 and just below 1
SampleSeeds ==
  {Word(0, 1), Word(9686, 4069), Word(42741, 46880), Word(42454, 4069), Word(9973, 46880)}

InitSampler ==
  /\ config = DefaultConfig
  /\ inSignals = <<>>
  /\ inWarnings = <<>>
  /\ ResolversIdle
  /\ inArgs = NoArgs
  /\ rngState = Word(0, 0)
  /\ estimate = NoEstimate
  /\ calls = <<>>
  /\ \E min \in SampleValues, max \in SampleValues, seed \in SampleSeeds :
       sample = [min |-> min, max |-> max, mode |-> (min + max) \div 2,
                 rng |-> seed, value |-> 0, after |-> seed, draws |-> 0]
  /\ EngineIdle

\* the record of a call that returned r
Drawn(r) ==
  [sample EXCEPT !.rng = sample.after, !.value = r.value, !.after = r.rng, !.draws = @ + 1]

\* one call triangularSample(min, max, (min + max) / 2, rng) on the generator
\* as the call before left it
TriangularSample ==
  /\ sample.draws < MaxDraws
  /\ sample' = Drawn(triangularSample(sample.min, sample.max, sample.mode, sample.after))
  /\ UNCHANGED <<config, inSignals, inWarnings, ResolverOutputs, returned,
                 inArgs, rngState, estimate, calls, EngineVars, RouteVars,
    PageVars, RngVars, trials, sda, FormVars>>

NextSampler == TriangularSample

SpecSampler == InitSampler /\ [][NextSampler]_vars

\* seed keys as charCodeAt values: the empty key, keys of one to three
\* characters, and two keys that hashSeed folds to 0
RngKeys ==
  {<<>>, <<65>>, <<49, 50>>, <<50, 49>>, <<97>>, <<97, 98, 99>>, <<49, 50, 51>>,
   <<32, 15314, 27735>>, <<33, 40877, 48211>>, <<8364>>, <<65535, 65535>>, <<0>>}

MaxEmitted == 8

\* createRng(hashSeed(seedKey)) for any seed key
InitRng ==
  /\ config = DefaultConfig
  /\ inSignals = <<>>
  /\ inWarnings = <<>>
  /\ ResolversIdle
  /\ inArgs = NoArgs
  /\ estimate = NoEstimate
  /\ calls = <<>>
  /\ sample = NoSample
  /\ bidAssumptions = <<>>
  /\ loadState = "loaded"
  /\ thrown = {}
  /\ loaded = config
  /\ received = inSignals
  /\ served = NeverServed
  /\ RouteIdle
  /\ PageIdle
  /\ rngKey \in RngKeys
  /\ rngState = createRng(hashSeed(rngKey))
  /\ emitted = <<>>
  /\ TrialsIdle
  /\ SdaIdle
  /\ FormsIdle

\* one call rng() of the closure createRng returned
Rng ==
  /\ Len(emitted) < MaxEmitted
  /\ rngState' = RngNext(rngState)
  /\ emitted' = Append(emitted, rngState')
  /\ UNCHANGED <<config, inSignals, inWarnings, ResolverOutputs, returned,
                 inArgs, estimate, calls, sample, EngineVars, RouteVars, PageVars, rngKey,
                 trials, sda, FormVars>>

NextRng == Rng

SpecRng == InitRng /\ [][NextRng]_vars

----------------------------------------------------------------------------
(* One call of buildProbabilisticEstimate, trial by trial *)

\* the call is synchronous: its steps are taken one after the other and
\* nothing else runs between them

\* the calls followed trial by trial: every explicit sampleSize with every
\* driver list, and calls that leave sampleSize out
TrialArgs ==
  [costDrivers     : SeqsUpTo(EstimatorDrivers, MaxDrivers),
   baselineCostUsd : {NoBaseline},
   seedKey         : {<<65>>},
   sampleSize      : 0 .. MaxSample]
  \cup
  [costDrivers     : {<<DriverWith("flood-zone", <<1000, 3000>>, <<2000, 6000>>)>>,
                      <<DriverWith("flood-zone", <<1000, 3000>>, <<2000, 6000>>),
                        DriverWith("site-slope", <<-1000, 500>>, <<0, 30>>)>>},
   baselineCostUsd : {250},
   seedKey         : {<<49, 50>>},
   sampleSize      : {NoSampleSize}]

\* the locals when the loop is entered with the generator in state rng
Entered(sampleSize, rng) ==
  [phase |-> "loop", sampleSize |-> sampleSize, i |-> 0, pctTotals |-> <<>>,
   dayTotals |-> <<>>, before |-> rng]

\* the call up to the loop: sampleSize, rng and the two empty arrays
Begin(a) ==
  /\ trials.phase = "idle"
  /\ inArgs' = a
  /\ rngState' = createRng(hashSeed(a.seedKey))
  /\ trials' = Entered(SampleSizeOf(a), rngState')
  /\ UNCHANGED <<config, inSignals, inWarnings, ResolverOutputs, returned, estimate,
                 calls, sample, EngineVars, RouteVars, PageVars, RngVars, sda, FormVars>>

\* pctTotals.push(pctSum); dayTotals.push(daySum); i++
PushTotals(t, trial, rng) ==
  [t EXCEPT !.i = @ + 1,
            !.pctTotals = Append(@, trial.pctSum),
            !.dayTotals = Append(@, trial.daySum),
            !.before = rng]

\* one pass of the loop over the trials
Trial ==
  /\ trials.phase = "loop"
  /\ trials.i < trials.sampleSize
  /\ trials' = PushTotals(trials, DriverLoop(inArgs.costDrivers, 1, rngState, 0, 0), rngState)
  /\ rngState' = DriverLoop(inArgs.costDrivers, 1, rngState, 0, 0).rng
  /\ UNCHANGED <<config, inSignals, inWarnings, ResolverOutputs, returned, inArgs,
                 estimate, calls, sample, EngineVars, RouteVars, PageVars, RngVars, sda, FormVars>>

\* the call from the end of the loop to its return
Finish ==
  /\ trials.phase = "loop"
  /\ trials.i >= trials.sampleSize
  /\ trials' = [trials EXCEPT !.phase = "done"]
  /\ estimate' = Returned(Summarise(inArgs, [pctTotals |-> trials.pctTotals,
                                             dayTotals |-> trials.dayTotals,
                                             rng       |-> rngState]))
  /\ calls' = Append(calls, [args |-> inArgs, result |-> estimate'])
  /\ UNCHANGED <<config, inSignals, inWarnings, ResolverOutputs, returned, inArgs,
                 rngState, sample, EngineVars, RouteVars, PageVars, RngVars, sda, FormVars>>

NextTrials ==
  \/ \E a \in TrialArgs : Begin(a)
  \/ Trial
  \/ Finish

SpecTrials == InitEstimator /\ [][NextTrials]_vars

----------------------------------------------------------------------------
(* The evaluation of the engine module and the requests after it *)

\* const config = rules as Config: the imported file becomes the
\* configuration as it is; the cast checks nothing at run time
LoadConfig ==
  /\ loadState = "pending"
  /\ loadState' = "loaded"
  /\ loaded' = config
  /\ UNCHANGED <<config, inSignals, inWarnings, ResolverOutputs, returned,
                 EstimatorVars, bidAssumptions, thrown, received, served, RouteVars,
    PageVars, RngVars, trials, sda, FormVars>>

\* the estimate of the drivers buildCostDrivers returned for this request
EstimateCostDrivers ==
  /\ "buildCostDrivers" \in returned
  /\ Len(calls) < MaxCalls
  /\ BuildProbabilisticEstimate([costDrivers     |-> costDrivers,
                                 baselineCostUsd |-> NoBaseline,
                                 seedKey         |-> <<65>>,
                                 sampleSize      |-> MaxSample])

\* a process that imports any of the files and then serves a request
InitLoad ==
  /\ config \in RuleFiles
  /\ inSignals \in SignalLists(SeverityPairs)
  /\ inWarnings = <<>>
  /\ ResolversIdle
  /\ EstimatorIdle
  /\ bidAssumptions = <<>>
  /\ loadState = "pending"
  /\ thrown = {}
  /\ loaded = config
  /\ received = inSignals
  /\ served = NeverServed
  /\ RouteIdle
  /\ PageIdle
  /\ RngIdle
  /\ TrialsIdle
  /\ SdaIdle
  /\ FormsIdle

\* requests one process serves for the same signal list
MaxRequests == 2

\* the caller hands the same signal list to the engine again
NextRequest ==
  /\ returned # {}
  /\ \A name \in Resolvers : served[name] < MaxRequests
  /\ returned' = {}
  /\ thrown' = {}
  /\ UNCHANGED <<config, inSignals, inWarnings, ResolverOutputs, EstimatorVars,
                 bidAssumptions, loadState, loaded, received, served, RouteVars,
    PageVars, RngVars, trials, sda, FormVars>>

\* configurations whose ladder and rule table are not in sorted order
FrameConfigs ==
  {DefaultConfig,
   [DefaultConfig EXCEPT
      !.costRules = <<RuleOf("site-slope"), RuleOf("flood-zone")>>,
      !.contingencyBands = <<[minScore |-> 2, minPct |-> 5, maxPct |-> 8, basis |-> "Moderate"],
                             [minScore |-> 5, minPct |-> 8, maxPct |-> 12, basis |-> "High"],
                             [minScore |-> 0, minPct |-> 3, maxPct |-> 5, basis |-> "Low"]>>]}

\* every signal of severity high: each resolver has something to return
FrameSeverities == {<<"high", "AE">>}

\* requests repeated in one process, the functions called in any order
InitFrame ==
  /\ config \in FrameConfigs
  /\ inSignals \in SignalLists(FrameSeverities)
  /\ inWarnings = <<>>
  /\ ResolversIdle
  /\ EstimatorIdle
  /\ EngineIdle

NextFrame ==
  \/ BuildCostDrivers
  \/ BuildPMActions
  \/ BuildContingency
  \/ BuildBidAssumptions
  \/ ScoreConfidence
  \/ EstimateCostDrivers
  \/ NextRequest

SpecFrame == InitFrame /\ [][NextFrame]_vars

NextLoad == LoadConfig \/ BuildCostDrivers \/ BuildContingency \/ EstimateCostDrivers

SpecLoad == InitLoad /\ [][NextLoad]_vars

----------------------------------------------------------------------------
(* Properties of the resolvers *)

Matched(signals, id) ==
  {i \in DOMAIN signals : signals[i].id = id /\ signals[i].severity # "unknown"}

RuleIndex(id) == CHOOSE k \in DOMAIN config.costRules : config.costRules[k].signalId = id

DriversReturned == "buildCostDrivers" \in returned

ActionsReturned == "buildPMActions" \in returned

C3_SortedStable ==
  DriversReturned =>
    \A i, j \in DOMAIN costDrivers :
      i < j =>
        /\ rankSeverity(costDrivers[i].severity) >= rankSeverity(costDrivers[j].severity)
        /\ rankSeverity(costDrivers[i].severity) = rankSeverity(costDrivers[j].severity)
             => RuleIndex(costDrivers[i].signalId) < RuleIndex(costDrivers[j].signalId)

\* three drivers: two of equal rank, and one that the sort moved ahead of a
\* driver whose rule comes earlier in the table
C3_Witness ==
  /\ DriversReturned
  /\ Len(costDrivers) = 3
  /\ \E i, j \in DOMAIN costDrivers :
       i < j /\ costDrivers[i].severity = costDrivers[j].severity
  /\ \E i, j \in DOMAIN costDrivers :
       i < j /\ RuleIndex(costDrivers[i].signalId) > RuleIndex(costDrivers[j].signalId)

DriversOf(id) == {d \in DOMAIN costDrivers : costDrivers[d].signalId = id}

Eligible(signals) ==
  \E i \in DOMAIN signals :
    /\ signals[i].severity \in {"high", "medium"}
    /\ signals[i].id \in DOMAIN config.actionLibrary

\* C8: buildPMActions never returns an empty list; it returns exactly the
\* baseline action when no signal of severity high or medium has a template,
\* and no baseline action otherwise
C8_BaselineAction ==
  ActionsReturned =>
    /\ Len(pmActions) >= 1
    /\ ~Eligible(inSignals) => pmActions = <<BaselineAction>>
    /\ Eligible(inSignals) =>
         \A a \in DOMAIN pmActions :
           pmActions[a].id # <<"action", "baseline">> /\ pmActions[a] # BaselineAction

\* the baseline action stands in although a signal is high: it has no template
C8_Witness ==
  /\ ActionsReturned
  /\ pmActions = <<BaselineAction>>
  /\ \E i \in DOMAIN inSignals : inSignals[i].severity = "high"
  /\ DOMAIN config.actionLibrary # {}

ContingencyReturned == "buildContingency" \in returned

LowestMinScore ==
  CHOOSE m \in {config.contingencyBands[k].minScore : k \in DOMAIN config.contingencyBands} :
    \A k \in DOMAIN config.contingencyBands : m <= config.contingencyBands[k].minScore

ScoreIsZero == \A i \in DOMAIN inSignals : inSignals[i].severity = "unknown"

ConfidenceReturned == "scoreConfidence" \in returned

\* C6: the confidence score lies in [35, 100], and it is 100 when there is no
\* warning and the completeness is 100
C6_ConfidenceRange ==
  ConfidenceReturned =>
    /\ confidence.confidenceScore >= 35
    /\ confidence.confidenceScore <= 100
    /\ (Len(inWarnings) = 0 /\ confidence.dataCompletenessPct = 100)
         => confidence.confidenceScore = 100

\* the floor is what holds the score at 35: no signal is known and there are
\* more than five warnings
C6_Witness ==
  /\ ConfidenceReturned
  /\ Len(inWarnings) > 5
  /\ Len(inSignals) > 0
  /\ confidence.dataCompletenessPct = 0
  /\ confidence.confidenceScore = 35

----------------------------------------------------------------------------
(* Properties of the estimator *)

Ordered(triple) == triple.p10 <= triple.p50 /\ triple.p50 <= triple.p90

Zero == [p10 |-> 0, p50 |-> 0, p90 |-> 0]

\* C1: two invocations with the same arguments return the same impactPct,
\* scheduleDays and impactCostUsd, whatever was invoked before or between
C1_Deterministic ==
  \A i, j \in DOMAIN calls :
    calls[i].args = calls[j].args =>
      /\ calls[i].result.impactPct = calls[j].result.impactPct
      /\ calls[i].result.scheduleDays = calls[j].result.scheduleDays
      /\ calls[i].result.hasImpactCostUsd = calls[j].result.hasImpactCostUsd
      /\ calls[i].result.impactCostUsd = calls[j].result.impactCostUsd

\* the same call before and after a call with another seed key, with results
\* that depend on the draws
C1_Witness ==
  /\ Len(calls) = 3
  /\ calls[1].args = calls[3].args
  /\ calls[2].args.seedKey # calls[1].args.seedKey
  /\ calls[2].result.impactPct # calls[1].result.impactPct
  /\ calls[1].result.impactPct.p10 < calls[1].result.impactPct.p90

\* C4: every percentile triple of a returned estimate is ordered,
\* p10 <= p50 <= p90, after rounding
C4_PercentilesOrdered ==
  Len(calls) > 0 =>
    /\ Ordered(estimate.impactPct)
    /\ Ordered(estimate.scheduleDays)
    /\ estimate.hasImpactCostUsd => Ordered(estimate.impactCostUsd)

\* an estimate whose three percentiles differ in every triple
C4_Witness ==
  /\ Len(calls) > 0
  /\ estimate.hasImpactCostUsd
  /\ estimate.impactPct.p10 < estimate.impactPct.p50
  /\ estimate.impactPct.p50 < estimate.impactPct.p90
  /\ estimate.scheduleDays.p10 < estimate.scheduleDays.p50
  /\ estimate.scheduleDays.p50 < estimate.scheduleDays.p90
  /\ estimate.impactCostUsd.p10 < estimate.impactCostUsd.p90

\* C5: for an empty driver list impactPct and scheduleDays are {0, 0, 0}
C5_EmptyDriversZero ==
  (Len(calls) > 0 /\ inArgs.costDrivers = <<>>) =>
    /\ estimate.impactPct = Zero
    /\ estimate.scheduleDays = Zero

\* an estimate for no driver, over several trials and with a baseline
C5_Witness ==
  /\ Len(calls) > 0
  /\ inArgs.costDrivers = <<>>
  /\ inArgs.sampleSize = MaxSample
  /\ inArgs.baselineCostUsd > 0
  /\ estimate.hasImpactCostUsd

\* C10: with mode = (min + max) / 2, triangularSample returns min when
\* max <= min, and a value in [min, max] otherwise
C10_SampleInRange ==
  sample.draws > 0 =>
    /\ sample.max <= sample.min => sample.value = sample.min
    /\ sample.max > sample.min =>
         sample.min <= sample.value /\ sample.value <= sample.max

\* a draw of 0 on a proper range: the sample is the lower end
C10_Witness ==
  /\ sample.draws > 0
  /\ sample.max > sample.min
  /\ RngValue(sample.after) = 0
  /\ sample.value = sample.min

----------------------------------------------------------------------------
(* The external sources: each fetcher as a function of the responses the    *)
(* network gives to the requests it issues, in the order it issues them     *)

\* a field the payload does not carry (undefined), as a string and as a number
Undefined == "undefined"

NoNumber == -999999

\* fetchJson throws: the request timed out, the status was not ok, or the
\* body was not JSON
Failure == [kind |-> "fail"]

\* a response whose ok is false, with the message sdaQuery makes of its status
NotOk(status) == [kind |-> "fail", message |-> "SDA request failed " \o ToString(status)]

\* fetchJson returns the parsed body
Json(data) == [kind |-> "json", data |-> data]

Rejects(r) == r.kind = "fail"

\* a promise fulfilled with a value after so many requests and these waits;
\* fallback tells that the value stands in for a response that failed
Fulfilled(value, requests, delays, fallback) ==
  [value |-> value, state |-> "fulfilled", requests |-> requests,
   delays |-> delays, fallback |-> fallback]

\* a promise rejected with an Error of this message
Rejected(message, requests, delays) ==
  [state |-> "rejected", error |-> message, requests |-> requests,
   delays |-> delays, fallback |-> FALSE]

\* String.prototype.trim on a sequence of characters
RECURSIVE TrimStart(_)
TrimStart(text) ==
  IF Len(text) > 0 /\ Head(text) = " " THEN TrimStart(Tail(text)) ELSE text

RECURSIVE TrimEnd(_)
TrimEnd(text) ==
  IF Len(text) > 0 /\ text[Len(text)] = " "
  THEN TrimEnd(SubSeq(text, 1, Len(text) - 1)) ELSE text

\* the address taken from the body as it is
Trim_none(text) == text

Trim(text) == TrimEnd(TrimStart(text))

\* address.split(",").length
Parts(address) == 1 + Cardinality({i \in DOMAIN address : address[i] = ","})

NoMatch == [matched |-> FALSE]

\* data.result.addressMatches[0] with its coordinates
Match(name, y, x) == [matched |-> TRUE, matchedAddress |-> name, coordinates |-> [x |-> x, y |-> y]]

GeocodeError == "Could not geocode address"

\* the requests geocodeAddress issues at most: the four address variations
\* and, for an address with a comma, the city and state alone
GeocodeRequests(address) == IF Parts(address) >= 2 THEN 5 ELSE 4

RECURSIVE GeocodeFrom(_, _, _)
\* the for loop and the last resort of geocodeAddress from request k on
GeocodeFrom(address, script, k) ==
  IF k > GeocodeRequests(address) THEN Rejected(GeocodeError, k - 1, <<>>)
  ELSE IF ~Rejects(script[k]) /\ script[k].data.matched
       THEN Fulfilled([matchedAddress |-> script[k].data.matchedAddress,
                       location |-> [lat |-> script[k].data.coordinates.y,
                                     lon |-> script[k].data.coordinates.x]],
                      k, <<>>, FALSE)
       ELSE GeocodeFrom(address, script, k + 1)

geocodeAddress(address, script) == GeocodeFrom(address, script, 1)

USGSEmpty ==
  [sdc |-> Undefined, sds |-> NoNumber, sd1 |-> NoNumber, pga |-> NoNumber,
   ss |-> NoNumber, s1 |-> NoNumber]

\* the catch of fetchUSGSDesignMap rethrowing what fetchJson threw
fetchUSGSDesignMap_rethrow(r) ==
  IF Rejects(r) THEN Rejected("Request failed", 1, <<>>)
  ELSE Fulfilled([sdc |-> r.data.sdc, sds |-> r.data.sds, sd1 |-> r.data.sd1,
                  pga |-> r.data.pga, ss |-> r.data.ss, s1 |-> r.data.s1],
                 1, <<>>, FALSE)

\* r.data is the payload data.response.data ?? data.data ?? {}
fetchUSGSDesignMap(r) ==
  IF Rejects(r) THEN Fulfilled(USGSEmpty, 1, <<>>, TRUE)
  ELSE Fulfilled([sdc |-> r.data.sdc, sds |-> r.data.sds, sd1 |-> r.data.sd1,
                  pga |-> r.data.pga, ss |-> r.data.ss, s1 |-> r.data.s1],
                 1, <<>>, FALSE)

\* Zone X, outside mapped areas
FEMAOutside ==
  [floodZone |-> "X", zoneSubtype |-> "Outside mapped areas", staticBfe |-> NoNumber,
   firmPanel |-> Undefined]

\* the catch of fetchFEMAFloodZone rethrowing what fetchJson threw
fetchFEMAFloodZone_rethrow(r) ==
  IF Rejects(r) THEN Rejected("Request failed", 1, <<>>)
  ELSE IF r.data.FLD_ZONE # Undefined /\ r.data.FLD_ZONE # ""
       THEN Fulfilled([floodZone |-> r.data.FLD_ZONE, zoneSubtype |-> r.data.ZONE_SUBTY,
                       staticBfe |-> r.data.STATIC_BFE, firmPanel |-> r.data.DFIRM_ID],
                      1, <<>>, FALSE)
       ELSE Fulfilled(FEMAOutside, 1, <<>>, FALSE)

\* r.data is data.features[0].attributes (every field Undefined without it)
fetchFEMAFloodZone(r) ==
  IF Rejects(r) THEN Fulfilled(FEMAOutside, 1, <<>>, TRUE)
  ELSE IF r.data.FLD_ZONE # Undefined /\ r.data.FLD_ZONE # ""
       THEN Fulfilled([floodZone |-> r.data.FLD_ZONE, zoneSubtype |-> r.data.ZONE_SUBTY,
                       staticBfe |-> r.data.STATIC_BFE, firmPanel |-> r.data.DFIRM_ID],
                      1, <<>>, FALSE)
       ELSE Fulfilled(FEMAOutside, 1, <<>>, FALSE)

\* coordinates are in thousandths of a degree
getStateFromCoordinates(lat, lon) ==
  IF lon < -124000 /\ lon > -117000 /\ lat < 42000 /\ lat > 32000 THEN "CA"
  ELSE IF lon < -105000 /\ lon > -109000 /\ lat < 41000 /\ lat > 37000 THEN "CO"
  ELSE IF lon < -120000 /\ lon > -116000 /\ lat < 49000 /\ lat > 42000 THEN "OR"
  ELSE IF lon < -119000 /\ lon > -114000 /\ lat < 43000 /\ lat > 41000 THEN "ID"
  ELSE IF lon < -109000 /\ lon > -103000 /\ lat < 37000 /\ lat > 31000 THEN "NM"
  ELSE IF lon < -100000 /\ lon > -94000 /\ lat < 31000 /\ lat > 25000 THEN "TX"
  ELSE IF lon < -95000 /\ lon > -80000 /\ lat < 40000 /\ lat > 24000 THEN "FL"
  ELSE "US"

getStateFireRisk(st) ==
  IF st = "CA" THEN "very high"
  ELSE IF st \in {"WA", "OR", "ID", "MT", "NM", "AZ"} THEN "high"
  ELSE IF st \in {"CO", "UT", "NV", "TX", "FL"} THEN "medium"
  ELSE "low"

\* hazard_level.toLowerCase() for the levels the layer reports
LowerCase(level) ==
  IF level = "Very High" THEN "very high"
  ELSE IF level = "Extreme" THEN "extreme"
  ELSE IF level = "High" THEN "high"
  ELSE IF level = "Moderate" THEN "moderate"
  ELSE IF level = "Low" THEN "low"
  ELSE level

\* the wildfireRisk fetchFireHazard derives from hazard_level
RiskOfLevel(level) ==
  IF level = Undefined THEN "low"
  ELSE IF LowerCase(level) \in {"very high", "extreme"} THEN "very high"
  ELSE IF LowerCase(level) = "high" THEN "high"
  ELSE IF LowerCase(level) = "moderate" THEN "medium"
  ELSE "low"

\* `${state} (estimated)`
Estimated(st) == <<st, " (estimated)">>

\* r.data is data.features[0]: attributes tells whether it has attributes
fetchFireHazard(point, r) ==
  IF ~Rejects(r) /\ r.data.attributes
  THEN Fulfilled([wildfireRisk |-> RiskOfLevel(r.data.hazard_level),
                  fireZoneCategory |-> <<r.data.zone_name>>], 1, <<>>, FALSE)
  ELSE Fulfilled([wildfireRisk |-> getStateFireRisk(getStateFromCoordinates(point.lat, point.lon)),
                  fireZoneCategory |-> Estimated(getStateFromCoordinates(point.lat, point.lon))],
                 1, <<>>, Rejects(r))

RECURSIVE Pow(_, _)
Pow(b, n) == IF n = 0 THEN 1 ELSE b * Pow(b, n - 1)

\* Math.pow(2.5, attempt) * 100 milliseconds
SdaDelay(attempt) == (Pow(25, attempt) * 100) \div Pow(10, attempt)

\* what the catch block of sdaQuery keeps of a request that failed: the
\* Error `SDA request failed ${res.status}` of a response that is not ok, or
\* the error fetch rejected with
SdaError(r) == IF r = Failure THEN "fetch failed" ELSE r.message

\* throw lastError || new Error("SDA query failed after retries"); lastError
\* is null (<<>>) until an attempt has failed
SdaThrown(lastError) ==
  IF lastError = <<>> THEN "SDA query failed after retries" ELSE lastError[1]

RECURSIVE SdaFrom(_, _, _, _, _)
\* the for loop of sdaQuery from this attempt on; a response carries
\* data.Table ?? []
SdaFrom(script, maxRetries, attempt, delays, lastError) ==
  IF attempt >= maxRetries THEN Rejected(SdaThrown(lastError), attempt, delays)
  ELSE IF ~Rejects(script[attempt + 1])
       THEN Fulfilled(script[attempt + 1].data, attempt + 1, delays, FALSE)
       ELSE SdaFrom(script, maxRetries, attempt + 1,
                    IF attempt < maxRetries - 1 THEN Append(delays, SdaDelay(attempt))
                    ELSE delays,
                    <<SdaError(script[attempt + 1])>>)

sdaQuery(script, maxRetries) == SdaFrom(script, maxRetries, 0, <<>>, <<>>)

NoRow ==
  [compname |-> Undefined, hydgrpdcd |-> Undefined, drclassdcd |-> Undefined,
   resdept_r |-> NoNumber, claytotal_r |-> NoNumber]

\* rows?.[0] ?? {}
FirstRow(rows) == IF Len(rows) >= 1 THEN rows[1] ELSE NoRow

SoilsEmpty ==
  [compname |-> Undefined, hydrologicGroup |-> Undefined, drainageClass |-> Undefined,
   restrictiveDepthCm |-> NoNumber, clayPercent |-> NoNumber]

\* fetchNRCSSoilData: one request, rethrown on failure
fetchNRCSSoilData(r) ==
  IF Rejects(r) THEN Rejected("NRCS fallback failed", 1, <<>>)
  ELSE Fulfilled([compname |-> FirstRow(r.data).compname,
                  hydrologicGroup |-> FirstRow(r.data).hydgrpdcd,
                  drainageClass |-> FirstRow(r.data).drclassdcd,
                  restrictiveDepthCm |-> FirstRow(r.data).resdept_r,
                  clayPercent |-> NoNumber], 1, <<>>, TRUE)

\* the catch blocks of fetchSoils, the primary queries having issued so many
\* requests and slept these delays
SoilsFallback(nrcs, requests, delays) ==
  IF nrcs.state = "fulfilled"
  THEN Fulfilled(nrcs.value, requests + nrcs.requests, delays, TRUE)
  ELSE Fulfilled(SoilsEmpty, requests + nrcs.requests, delays, TRUE)

\* fetchSoils once both queries of Promise.all have settled
SoilsFrom(comp, hz, r) ==
  IF comp.state = "fulfilled" /\ hz.state = "fulfilled"
  THEN Fulfilled([compname |-> FirstRow(comp.value).compname,
                  hydrologicGroup |-> FirstRow(comp.value).hydgrpdcd,
                  drainageClass |-> FirstRow(comp.value).drclassdcd,
                  restrictiveDepthCm |-> FirstRow(comp.value).resdept_r,
                  clayPercent |-> FirstRow(hz.value).claytotal_r],
                 comp.requests + hz.requests, comp.delays \o hz.delays, FALSE)
  ELSE SoilsFallback(fetchNRCSSoilData(r), comp.requests + hz.requests,
                     comp.delays \o hz.delays)

\* script.comp and script.hz answer the two SDA queries, script.nrcs the
\* fallback request
fetchSoils(script) == SoilsFrom(sdaQuery(script.comp, 3), sdaQuery(script.hz, 2), script.nrcs)

\* Math.pow(2, retryCount) * 500 milliseconds
EpqsDelay(retryCount) == Pow(2, retryCount) * 500

\* the 3DEP request after the last EPQS failure; data is the value when it
\* is a number, NoNumber otherwise
ThreeDep(r, requests, delays) ==
  IF Rejects(r) THEN Fulfilled(NoNumber, requests + 1, delays, TRUE)
  ELSE Fulfilled(r.data, requests + 1, delays, TRUE)

RECURSIVE EpqsFrom(_, _, _)
\* fetchEPQSElevation(point, retryCount); the script answers the requests
EpqsFrom(script, retryCount, delays) ==
  IF ~Rejects(script[retryCount + 1])
  THEN Fulfilled(script[retryCount + 1].data, retryCount + 1, delays, FALSE)
  ELSE IF retryCount < 2
       THEN EpqsFrom(script, retryCount + 1, Append(delays, EpqsDelay(retryCount)))
       ELSE ThreeDep(script[retryCount + 2], retryCount + 1, delays)

fetchEPQSElevation(script) == EpqsFrom(script, 0, <<>>)

ElevationEmpty == [elevationMeters |-> NoNumber, reliefMeters |-> NoNumber, slopePercent |-> NoNumber]

IsNumber(sampled) == sampled.value # NoNumber

RECURSIVE Highest(_, _, _)
\* Math.max(...values) of the first n samples, from `so far`
Highest(samples, n, sofar) ==
  IF n = 0 THEN sofar ELSE Highest(samples, n - 1, Max(sofar, samples[n].value))

RECURSIVE Lowest(_, _, _)
Lowest(samples, n, sofar) ==
  IF n = 0 THEN sofar ELSE Lowest(samples, n - 1, Min(sofar, samples[n].value))

RECURSIVE RequestsOf(_, _)
\* the requests the first n samples issued
RequestsOf(samples, n) ==
  IF n = 0 THEN 0 ELSE RequestsOf(samples, n - 1) + samples[n].requests

RECURSIVE DelaysOf(_, _)
DelaysOf(samples, n) ==
  IF n = 0 THEN <<>> ELSE DelaysOf(samples, n - 1) \o samples[n].delays

\* relief / (2 * delta * 111320) * 100 for delta = 0.001, metres in
\* thousandths: the distance is 222.64 m
SlopePercent(relief) == (relief * 10000) \div 22264

\* the summary of the numeric values among the samples (center first)
Summary(center, values) ==
  IF Len(values) = 0 THEN ElevationEmpty
  ELSE [elevationMeters |-> center.value,
        reliefMeters |-> Highest(values, Len(values), values[1].value)
                         - Lowest(values, Len(values), values[1].value),
        slopePercent |-> SlopePercent(Highest(values, Len(values), values[1].value)
                                      - Lowest(values, Len(values), values[1].value))]

\* fetchElevationSummary once the center and the four offsets are sampled
SummaryFrom(samples) ==
  Fulfilled(Summary(samples[1], SelectSeq(samples, IsNumber)),
            RequestsOf(samples, Len(samples)), DelaysOf(samples, Len(samples)),
            \E i \in DOMAIN samples : samples[i].fallback)

\* scripts[1] answers the requests for the center, scripts[2..5] those for
\* the offsets
fetchElevationSummary(scripts) ==
  SummaryFrom([i \in DOMAIN scripts |-> fetchEPQSElevation(scripts[i])])

----------------------------------------------------------------------------
(* The V1 signals, built from what the fetchers returned *)

\* what the route's catch handler puts in place of a rejected fetcher
Absent == [absent |-> TRUE]

Has(data) == "absent" \notin DOMAIN data

\* args.fema?.floodZone and the like: Undefined when the argument is absent
StringOf(data, field) == IF Has(data) THEN data[field] ELSE Undefined

NumberOf(data, field) == IF Has(data) THEN data[field] ELSE NoNumber

\* zone.startsWith(letter) for the zones of the flood layer
ZoneStartsWith(zone, letter) ==
  \/ letter = "A" /\ zone \in {"A", "AE", "AH", "AO"}
  \/ letter = "V" /\ zone \in {"V", "VE"}
  \/ letter = "X" /\ zone = "X"
  \/ letter = "B" /\ zone = "B"
  \/ letter = "C" /\ zone = "C"

\* zone X read as no data
severityFromFloodZone_xUnknown(zone) ==
  IF zone = Undefined \/ zone = "" \/ zone = "X" THEN "unknown"
  ELSE IF ZoneStartsWith(zone, "A") \/ ZoneStartsWith(zone, "V") THEN "high"
  ELSE IF ZoneStartsWith(zone, "B") \/ ZoneStartsWith(zone, "C") THEN "low"
  ELSE "medium"

severityFromFloodZone(zone) ==
  IF zone = Undefined \/ zone = "" THEN "unknown"
  ELSE IF ZoneStartsWith(zone, "A") \/ ZoneStartsWith(zone, "V") THEN "high"
  ELSE IF ZoneStartsWith(zone, "X") \/ ZoneStartsWith(zone, "B") \/ ZoneStartsWith(zone, "C")
       THEN "low"
  ELSE "medium"

severityFromFireRisk(risk) ==
  IF risk = Undefined THEN "low"
  ELSE IF risk = "very high" \/ risk = "high" THEN "high"
  ELSE IF risk = "medium" THEN "medium"
  ELSE "low"

severityFromSdc(sdc) ==
  IF sdc = Undefined THEN "low"
  ELSE IF sdc \in {"D", "E", "F"} THEN "high"
  ELSE IF sdc = "C" THEN "medium"
  ELSE "low"

\* group.includes(letter) for the hydrologic groups of the soil survey
severityFromHydroGroup(group) ==
  IF group = Undefined THEN "low"
  ELSE IF group \in {"D", "A/D", "B/D", "C/D"} THEN "high"
  ELSE IF group = "C" THEN "medium"
  ELSE "low"

\* value.toLowerCase().includes(...) for the drainage classes of the survey
severityFromDrainageClass(value) ==
  IF value = Undefined THEN "low"
  ELSE IF value \in {"Poorly drained", "Very poorly drained", "Somewhat poorly drained"}
       THEN "high"
  ELSE IF value \in {"Moderately well drained", "Somewhat excessively drained"} THEN "medium"
  ELSE "low"

\* percent in thousandths
severityFromClay(clay) ==
  IF clay = NoNumber THEN "low"
  ELSE IF clay >= 40 * Unit THEN "high"
  ELSE IF clay >= 25 * Unit THEN "medium"
  ELSE "low"

\* centimetres in thousandths
severityFromRestrictiveDepth(depth) ==
  IF depth = NoNumber THEN "low"
  ELSE IF depth <= 100 * Unit THEN "high"
  ELSE IF depth <= 150 * Unit THEN "medium"
  ELSE "low"

severityFromSlope(slope) ==
  IF slope = NoNumber THEN "low"
  ELSE IF slope >= 10 * Unit THEN "high"
  ELSE IF slope >= 5 * Unit THEN "medium"
  ELSE "low"

\* a signal value that is a text
Text(text) == <<text>>

\* a signal value that is `${formatNumber(value, digits)}${unit}`, or the
\* text for a value that is null or undefined
Formatted(value, digits, unit, otherwise) ==
  IF value = NoNumber THEN Text(otherwise) ELSE <<value, digits, unit>>

Signal(id, label, value, severity) ==
  [id |-> id, label |-> label, value |-> value, severity |-> severity]

\* the signals buildSignals pushes from args.fema
FloodSignals(fema) ==
  <<Signal("flood-zone", "Flood Hazard Zone",
           Text(IF StringOf(fema, "floodZone") = Undefined THEN "Unknown"
                ELSE StringOf(fema, "floodZone")),
           severityFromFloodZone(StringOf(fema, "floodZone"))),
    Signal("base-flood-elevation", "Base Flood Elevation",
           Formatted(NumberOf(fema, "staticBfe"), -1, " ft", "Not applicable"),
           IF NumberOf(fema, "staticBfe") # NoNumber THEN "medium" ELSE "low")>>

\* the signals buildSignals pushes from args.usgs
SeismicSignals(usgs) ==
  <<Signal("sdc", "Seismic Design Category",
           Text(IF StringOf(usgs, "sdc") = Undefined THEN "Not available"
                ELSE StringOf(usgs, "sdc")),
           severityFromSdc(StringOf(usgs, "sdc"))),
    Signal("sds", "Short-Period Spectral Accel (SDS)",
           Formatted(NumberOf(usgs, "sds"), 3, "", "Not available"),
           IF NumberOf(usgs, "sds") # NoNumber /\ NumberOf(usgs, "sds") >= Unit
           THEN "high" ELSE "low"),
    Signal("sd1", "1-Second Spectral Accel (SD1)",
           Formatted(NumberOf(usgs, "sd1"), 3, "", "Not available"),
           IF NumberOf(usgs, "sd1") # NoNumber /\ NumberOf(usgs, "sd1") >= 600
           THEN "high" ELSE "low")>>

\* the signals buildSignals pushes from args.soils
SoilSignals(soils) ==
  <<Signal("soil-drainage", "Soil Drainage Class",
           Text(IF StringOf(soils, "drainageClass") = Undefined THEN "Not available"
                ELSE StringOf(soils, "drainageClass")),
           severityFromDrainageClass(StringOf(soils, "drainageClass"))),
    Signal("hydro-group", "Soil Hydrologic Group",
           Text(IF StringOf(soils, "hydrologicGroup") = Undefined THEN "Not available"
                ELSE StringOf(soils, "hydrologicGroup")),
           severityFromHydroGroup(StringOf(soils, "hydrologicGroup"))),
    Signal("clay", "Surface Clay Content",
           Formatted(NumberOf(soils, "clayPercent"), 0, "%", "Not available"),
           severityFromClay(NumberOf(soils, "clayPercent"))),
    Signal("restrictive-depth", "Restrictive Layer Depth",
           Formatted(NumberOf(soils, "restrictiveDepthCm"), 0, " cm", "Not available"),
           severityFromRestrictiveDepth(NumberOf(soils, "restrictiveDepthCm")))>>

\* the signals buildSignals pushes from args.elevation and args.fire
TerrainSignals(elevation, fire) ==
  <<Signal("site-slope", "Local Slope (Approx)",
           Formatted(NumberOf(elevation, "slopePercent"), 1, "%", "Not available"),
           severityFromSlope(NumberOf(elevation, "slopePercent"))),
    Signal("wildfire-risk", "Wildfire Risk",
           Text(IF StringOf(fire, "wildfireRisk") = Undefined THEN "Not available"
                ELSE StringOf(fire, "wildfireRisk")),
           severityFromFireRisk(StringOf(fire, "wildfireRisk")))>>

buildSignals(args) ==
  FloodSignals(args.fema) \o SeismicSignals(args.usgs) \o SoilSignals(args.soils)
    \o TerrainSignals(args.elevation, args.fire)

\* signals.find(s => s.id === id)?.severity === "high"
HighSignal(signals, id) ==
  \E i \in DOMAIN signals :
    /\ signals[i].id = id
    /\ signals[i].severity = "high"
    /\ \A j \in 1 .. i - 1 : signals[j].id # id

\* the implication titles pushed for the ids from position k on
RECURSIVE ImplicationsFrom(_, _, _, _)
ImplicationsFrom(signals, ids, k, implications) ==
  IF k > Len(ids) THEN implications
  ELSE ImplicationsFrom(signals, ids, k + 1,
                        IF HighSignal(signals, ids[k][1])
                        THEN Append(implications, ids[k][2]) ELSE implications)

buildImplications(signals) ==
  LET found == ImplicationsFrom(signals,
                 <<<<"flood-zone", "Flood Mitigation Budget">>,
                   <<"sdc", "Structural Seismic Premium">>,
                   <<"soil-drainage", "Dewatering & Subgrade">>,
                   <<"clay", "Expansive Soil Controls">>,
                   <<"site-slope", "Grading & Retaining">>,
                   <<"wildfire-risk", "Fire Defensibility & Insurance">>>>, 1, <<>>)
  IN  IF Len(found) = 0 THEN <<"Baseline Controls">> ELSE found

----------------------------------------------------------------------------
(* The analyze route *)

\* a fact with a text value; addFact drops it when the value is null or ""
TextFact(source, label, value) ==
  [source |-> source, label |-> label, value |-> <<value>>,
   kept |-> value # Undefined /\ value # ""]

\* a fact with a number value; addFact drops it when the value is null
NumberFact(source, label, value, unit) ==
  [source |-> source, label |-> label, value |-> <<value, unit>>, kept |-> value # NoNumber]

Kept(fact) == fact.kept

\* the facts added after the geocoder answered: matchedAddress ?? address
GeocodeFacts(address, geocode) ==
  <<[source |-> "US Census Geocoder", label |-> "Matched Address",
     value |-> IF geocode.matchedAddress = Undefined THEN <<address>>
               ELSE <<geocode.matchedAddress>>,
     kept |-> geocode.matchedAddress # ""],
    NumberFact("US Census Geocoder", "Latitude", geocode.location.lat, ""),
    NumberFact("US Census Geocoder", "Longitude", geocode.location.lon, "")>>

\* the facts added for the sources that are not undefined
SourceFacts(usgs, fema, soils, elevation, fire) ==
  (IF Has(usgs)
   THEN <<NumberFact("USGS Design Maps", "SDS", usgs.sds, "g"),
          NumberFact("USGS Design Maps", "SD1", usgs.sd1, "g"),
          NumberFact("USGS Design Maps", "PGA", usgs.pga, "g"),
          TextFact("USGS Design Maps", "SDC", usgs.sdc)>> ELSE <<>>)
  \o (IF Has(fema)
      THEN <<TextFact("FEMA NFHL", "Flood Zone", fema.floodZone),
             TextFact("FEMA NFHL", "Zone Subtype", fema.zoneSubtype),
             NumberFact("FEMA NFHL", "Base Flood Elevation", fema.staticBfe, "ft")>> ELSE <<>>)
  \o (IF Has(soils)
      THEN <<TextFact("USDA NRCS SSURGO", "Soil Component", soils.compname),
             TextFact("USDA NRCS SSURGO", "Drainage Class", soils.drainageClass),
             TextFact("USDA NRCS SSURGO", "Hydrologic Group", soils.hydrologicGroup),
             NumberFact("USDA NRCS SSURGO", "Restrictive Depth", soils.restrictiveDepthCm, "cm"),
             NumberFact("USDA NRCS SSURGO", "Surface Clay", soils.clayPercent, "%")>> ELSE <<>>)
  \o (IF Has(elevation)
      THEN <<NumberFact("USGS EPQS", "Elevation", elevation.elevationMeters, "m"),
             NumberFact("USGS EPQS", "Local Relief", elevation.reliefMeters, "m"),
             NumberFact("USGS EPQS", "Approx Slope", elevation.slopePercent, "%")>> ELSE <<>>)
  \o (IF Has(fire)
      THEN <<TextFact("USGS Wildland Fire", "Wildfire Risk", fire.wildfireRisk),
             [source |-> "USGS Wildland Fire", label |-> "Fire Zone Category",
              value |-> fire.fireZoneCategory,
              kept |-> fire.fireZoneCategory # <<Undefined>>]>> ELSE <<>>)

\* promise.catch(err => { warnings.push(...); return undefined; })
Caught(promise) == IF promise.state = "fulfilled" THEN promise.value ELSE Absent

WarningOf(source) ==
  IF source = "usgs" THEN "USGS design maps unavailable"
  ELSE IF source = "fema" THEN "FEMA flood data unavailable"
  ELSE IF source = "soils" THEN "USDA soils unavailable"
  ELSE IF source = "elevation" THEN "USGS elevation unavailable"
  ELSE "Fire hazard data unavailable"

\* the result record of the route, every fetcher having settled
AnalysisResult(address, geocode, usgs, fema, soils, elevation, fire, warnings) ==
  [status       |-> 200,
   address      |-> address,
   location     |-> geocode.location,
   facts        |-> SelectSeq(GeocodeFacts(address, geocode)
                              \o SourceFacts(usgs, fema, soils, elevation, fire), Kept),
   signals      |-> buildSignals([fema |-> fema, usgs |-> usgs, soils |-> soils,
                                  elevation |-> elevation, fire |-> fire]),
   implications |-> buildImplications(
                      buildSignals([fema |-> fema, usgs |-> usgs, soils |-> soils,
                                    elevation |-> elevation, fire |-> fire])),
   warnings     |-> warnings]

\* the variables of the engine, which the route does not touch
EngineState ==
  <<config, inSignals, inWarnings, ResolverOutputs, returned, EstimatorVars, EngineVars,
    PageVars, RngVars, trials, sda, FormVars>>

\* POST up to the first await: the body is parsed and the address trimmed
Post(b) ==
  /\ pc = "idle"
  /\ body' = b
  /\ IF ~b.has \/ Len(Trim(b.address)) = 0
     THEN /\ response' = [status |-> 400, error |-> "Address required"]
          /\ pc' = "done"
     ELSE /\ pc' = "geocoding"
          /\ UNCHANGED response
  /\ UNCHANGED <<fetched, routeWarnings, EngineState>>

\* await geocodeAddress(address): a rejection goes to the catch of POST
Geocoded(promise) ==
  /\ fetched' = [fetched EXCEPT !["geocoder"] = promise]
  /\ IF promise.state = "rejected"
     THEN /\ response' = [status |-> 500, error |-> promise.error]
          /\ pc' = "done"
     ELSE /\ pc' = "fetching"
          /\ UNCHANGED response
  /\ UNCHANGED <<body, routeWarnings, EngineState>>

\* one fetcher of the Promise.all settles
Settled(source, promise) ==
  /\ pc = "fetching"
  /\ fetched[source] = Pending
  /\ fetched' = [fetched EXCEPT ![source] = promise]
  /\ routeWarnings' = IF promise.state = "rejected"
                      THEN Append(routeWarnings, <<WarningOf(source), promise.error>>)
                      ELSE routeWarnings
  /\ UNCHANGED <<body, pc, response, EngineState>>

\* Promise.all resolves and POST builds and returns the result
Respond ==
  /\ pc = "fetching"
  /\ \A s \in Sources : fetched[s] # Pending
  /\ response' = AnalysisResult(Trim(body.address), fetched["geocoder"].value,
                                Caught(fetched["usgs"]), Caught(fetched["fema"]),
                                Caught(fetched["soils"]), Caught(fetched["elevation"]),
                                Caught(fetched["fire"]), routeWarnings)
  /\ pc' = "done"
  /\ UNCHANGED <<body, fetched, routeWarnings, EngineState>>

\* posted bodies: no address, an empty and a blank one, an address without
\* a comma and one with a comma and surrounding blanks
Bodies ==
  {NoBody,
   [has |-> TRUE, address |-> <<>>],
   [has |-> TRUE, address |-> <<" ", " ">>],
   [has |-> TRUE, address |-> <<"A">>],
   [has |-> TRUE, address |-> <<" ", "A", ",", " ", "B", " ">>]}

\* what the geocoder answers for a site in Iowa and for one in Colorado
Ames == Json(Match("300 E LINCOLN WAY, AMES, IA", 42030, -93620))

Aspen == Json(Match(Undefined, 39000, -106000))

\* the answers to the five requests: every request fails; no request finds a
\* match; failures and misses alternate; the first matches; the second
\* matches after a failure; only the city and state match
GeoScripts ==
  {[k \in 1 .. 5 |-> Failure],
   [k \in 1 .. 5 |-> Json(NoMatch)],
   [k \in 1 .. 5 |-> IF k % 2 = 1 THEN Failure ELSE Json(NoMatch)],
   [k \in 1 .. 5 |-> IF k = 1 THEN Ames ELSE Failure],
   [k \in 1 .. 5 |-> IF k = 1 THEN Failure ELSE Aspen],
   [k \in 1 .. 5 |-> IF k = 5 THEN Ames ELSE Json(NoMatch)]}

UsgsResponses ==
  {Failure, Json(USGSEmpty),
   Json([sdc |-> "D", sds |-> 1200, sd1 |-> 300, pga |-> NoNumber, ss |-> 1500, s1 |-> 600])}

FemaResponses ==
  {Failure,
   Json([FLD_ZONE |-> Undefined, ZONE_SUBTY |-> Undefined, STATIC_BFE |-> NoNumber,
         DFIRM_ID |-> Undefined]),
   Json([FLD_ZONE |-> "AE", ZONE_SUBTY |-> "FLOODWAY", STATIC_BFE |-> 912000,
         DFIRM_ID |-> "19169C"]),
   Json([FLD_ZONE |-> "X", ZONE_SUBTY |-> "AREA OF MINIMAL FLOOD HAZARD",
         STATIC_BFE |-> NoNumber, DFIRM_ID |-> "19169C"])}

SoilRows ==
  <<[compname |-> "Clarion", hydgrpdcd |-> "C/D", drclassdcd |-> "Poorly drained",
     resdept_r |-> 120000, claytotal_r |-> 42000]>>

\* the SDA answers at once, after one failure, or never; the fallback
\* answers or fails
SoilScripts ==
  [comp : {<<Json(SoilRows), Failure, Failure>>, <<Failure, Json(<<>>), Failure>>,
           <<Failure, Failure, Failure>>},
   hz   : {<<Json(SoilRows), Failure>>, <<Failure, Failure>>},
   nrcs : {Json(SoilRows), Failure}]

\* one sample: answered at once, answered on the first retry, answered by
\* 3DEP only, never answered, answered without a number
SampleScripts ==
  {<<Json(100000), Failure, Failure, Failure>>,
   <<Failure, Json(123000), Failure, Failure>>,
   <<Failure, Failure, Failure, Json(111500)>>,
   <<Failure, Failure, Failure, Failure>>,
   <<Json(NoNumber), Failure, Failure, Failure>>}

\* the center and the four offsets, the offsets answered alike
ElevationScripts ==
  {<<center, offset, offset, offset, offset>> :
     center \in SampleScripts,
     offset \in {s \in SampleScripts : s[1] = Failure \/ s[1].data # NoNumber}}

FireResponses ==
  {Failure,
   Json([attributes |-> FALSE, hazard_level |-> Undefined, zone_name |-> Undefined]),
   Json([attributes |-> TRUE, hazard_level |-> "Very High", zone_name |-> "WUI"]),
   Json([attributes |-> TRUE, hazard_level |-> Undefined, zone_name |-> Undefined])}

Geocode ==
  /\ pc = "geocoding"
  /\ \E script \in GeoScripts : Geocoded(geocodeAddress(Trim(body.address), script))

FetchUSGS == \E r \in UsgsResponses : Settled("usgs", fetchUSGSDesignMap(r))

FetchFEMA == \E r \in FemaResponses : Settled("fema", fetchFEMAFloodZone(r))

FetchSoils == \E script \in SoilScripts : Settled("soils", fetchSoils(script))

FetchElevation ==
  \E scripts \in ElevationScripts : Settled("elevation", fetchElevationSummary(scripts))

FetchFire ==
  \E r \in FireResponses :
    Settled("fire", fetchFireHazard(fetched["geocoder"].value.location, r))

\* one request posted to the route of a running server
InitRoute ==
  /\ config = DefaultConfig
  /\ inSignals = <<>>
  /\ inWarnings = <<>>
  /\ ResolversIdle
  /\ EstimatorIdle
  /\ EngineIdle

NextRoute ==
  \/ \E b \in Bodies : Post(b)
  \/ Geocode
  \/ FetchUSGS
  \/ FetchFEMA
  \/ FetchSoils
  \/ FetchElevation
  \/ FetchFire
  \/ Respond

SpecRoute == InitRoute /\ [][NextRoute]_vars

----------------------------------------------------------------------------
(* One call of sdaQuery, from one await to the next *)

MaxRetries == 3

\* what the service answers to one request: rows, a body without Table, a
\* status that is not ok, or nothing before the request is aborted
SdaAnswers == {Json(SoilRows), Json(<<>>), NotOk(500), Failure}

\* an answer for each request the call can issue
SdaScripts == [1 .. MaxRetries -> SdaAnswers]

Requested == [kind |-> "request", ms |-> 0]

Waited(ms) == [kind |-> "wait", ms |-> ms]

\* the call up to its first await: the fetch of attempt 0, or the throw
\* after a loop that has no pass
Called(script, maxRetries) ==
  IF maxRetries > 0
  THEN [NoSda EXCEPT !.phase = "fetching", !.script = script, !.maxRetries = maxRetries,
                     !.log = <<Requested>>]
  ELSE [NoSda EXCEPT !.phase = "rejected", !.script = script, !.maxRetries = maxRetries,
                     !.error = SdaThrown(<<>>)]

SdaQuery(script, maxRetries) ==
  /\ sda.phase = "idle"
  /\ sda' = Called(script, maxRetries)
  /\ UNCHANGED <<config, inSignals, inWarnings, ResolverOutputs, returned, EstimatorVars,
                 EngineVars, RouteVars, PageVars, RngVars, trials, FormVars>>

\* the catch block sleeping after the last attempt as well
SdaCaught_sleepsLast(q, error) ==
  IF q.attempt < q.maxRetries - 1
  THEN [q EXCEPT !.phase = "sleeping", !.lastError = <<error>>,
                 !.log = Append(@, Waited(SdaDelay(q.attempt)))]
  ELSE [q EXCEPT !.phase = "rejected", !.lastError = <<error>>, !.attempt = @ + 1,
                 !.log = Append(@, Waited(SdaDelay(q.attempt))),
                 !.error = SdaThrown(<<error>>)]

\* the catch block for the error of this attempt: sleep when another attempt
\* follows, otherwise leave the loop and throw
SdaCaught(q, error) ==
  IF q.attempt < q.maxRetries - 1
  THEN [q EXCEPT !.phase = "sleeping", !.lastError = <<error>>,
                 !.log = Append(@, Waited(SdaDelay(q.attempt)))]
  ELSE [q EXCEPT !.phase = "rejected", !.lastError = <<error>>, !.attempt = @ + 1,
                 !.error = SdaThrown(<<error>>)]

\* the request of this attempt is answered: return data?.Table ?? [] or
\* go through the catch block
SdaAnswered(q, r) ==
  IF Rejects(r) THEN SdaCaught(q, SdaError(r))
  ELSE [q EXCEPT !.phase = "fulfilled", !.value = r.data]

SdaResponds ==
  /\ sda.phase = "fetching"
  /\ sda' = SdaAnswered(sda, sda.script[sda.attempt + 1])
  /\ UNCHANGED <<config, inSignals, inWarnings, ResolverOutputs, returned, EstimatorVars,
                 EngineVars, RouteVars, PageVars, RngVars, trials, FormVars>>

\* the timer of the backoff fires: attempt++ and the next fetch
SdaWakes ==
  /\ sda.phase = "sleeping"
  /\ sda' = [sda EXCEPT !.phase = "fetching", !.attempt = @ + 1, !.log = Append(@, Requested)]
  /\ UNCHANGED <<config, inSignals, inWarnings, ResolverOutputs, returned, EstimatorVars,
                 EngineVars, RouteVars, PageVars, RngVars, trials, FormVars>>

NextSda ==
  \/ \E script \in SdaScripts, maxRetries \in 0 .. MaxRetries : SdaQuery(script, maxRetries)
  \/ SdaResponds
  \/ SdaWakes

\* every request settles (it is aborted after 15 seconds) and every timer
\* fires
SpecSda == InitEstimator /\ [][NextSda]_vars /\ WF_vars(SdaResponds) /\ WF_vars(SdaWakes)

----------------------------------------------------------------------------
(* The V2 page and its exports *)

\* A text is the sequence of its pieces: a comma, a double quote and a line
\* feed are pieces of their own, every other piece is free of the three.
DoubleQuote == "\""

LineFeed == "\n"

\* String(value) of a number
String(value) == <<ToString(value)>>

RECURSIVE Join(_, _)
\* rows.join(separator), the rows being texts
Join(texts, separator) ==
  IF Len(texts) = 0 THEN <<>>
  ELSE IF Len(texts) = 1 THEN texts[1]
  ELSE texts[1] \o <<separator>> \o Join(Tail(texts), separator)

RECURSIVE Concat(_)
Concat(lists) == IF Len(lists) = 0 THEN <<>> ELSE lists[1] \o Concat(Tail(lists))

\* text.replace(/"/g, '""')
Doubled(text) ==
  Concat([i \in 1..Len(text) |->
            IF text[i] = DoubleQuote THEN <<DoubleQuote, DoubleQuote>> ELSE <<text[i]>>])

escapeCsv(text) ==
  IF \E i \in 1..Len(text) : text[i] \in {",", LineFeed, DoubleQuote}
  THEN <<DoubleQuote>> \o Doubled(text) \o <<DoubleQuote>>
  ELSE text

\* a template literal `Section,Field,${value}`
Row(section, field, value) == <<section, ",", field, ",">> \o value

\* `${range.min}-${range.max}`
MinMax(range) == String(range.min) \o <<"-">> \o String(range.max)

SummaryRows(d) ==
  <<Row("Summary", "Address", escapeCsv(d.address)),
    Row("Summary", "Confidence Score", String(d.confidenceScore)),
    Row("Summary", "Data Completeness %", String(d.dataCompletenessPct)),
    Row("Summary", "Contingency Min %", String(d.contingency.minPct)),
    Row("Summary", "Contingency Max %", String(d.contingency.maxPct)),
    Row("Summary", "P10 Cost Impact %", String(d.probabilisticEstimate.impactPct.p10)),
    Row("Summary", "P50 Cost Impact %", String(d.probabilisticEstimate.impactPct.p50)),
    Row("Summary", "P90 Cost Impact %", String(d.probabilisticEstimate.impactPct.p90)),
    Row("Summary", "P10 Schedule Days", String(d.probabilisticEstimate.scheduleDays.p10)),
    Row("Summary", "P50 Schedule Days", String(d.probabilisticEstimate.scheduleDays.p50)),
    Row("Summary", "P90 Schedule Days", String(d.probabilisticEstimate.scheduleDays.p90))>>

\* impactCostUsd is optional: a list of no or of one percentile triple
UsdRows(usd) ==
  IF Len(usd) = 0 THEN <<>>
  ELSE <<Row("Summary", "P10 Cost Impact USD", String(usd[1].p10)),
         Row("Summary", "P50 Cost Impact USD", String(usd[1].p50)),
         Row("Summary", "P90 Cost Impact USD", String(usd[1].p90))>>

DriverRows(d) ==
  <<Row("Cost Driver", "Label", escapeCsv(d.label)),
    Row("Cost Driver", "Severity", <<d.severity>>),
    Row("Cost Driver", "Cost Category", escapeCsv(d.costCategory)),
    Row("Cost Driver", "Cost Impact %", MinMax(d.estimatedCostDeltaPct)),
    Row("Cost Driver", "Schedule Days", MinMax(d.estimatedScheduleDeltaDays))>>

ActionRows(a) ==
  <<Row("PM Action", "Title", escapeCsv(a.title)),
    Row("PM Action", "Owner", <<a.owner>>),
    Row("PM Action", "Due Phase", <<a.duePhase>>),
    Row("PM Action", "Lead Time Days", String(a.leadTimeDays)),
    Row("PM Action", "Priority", <<a.priority>>)>>

toCsv(d) ==
  Join(<<<<"Section", ",", "Field", ",", "Value">>>>
       \o SummaryRows(d)
       \o UsdRows(d.probabilisticEstimate.impactCostUsd)
       \o Concat([i \in 1..Len(d.costDrivers) |-> DriverRows(d.costDrivers[i])])
       \o Concat([i \in 1..Len(d.actions) |-> ActionRows(d.actions[i])]),
       LineFeed)

\* JSON.stringify of a string: quoted, a double quote and a line feed escaped
Quoted(text) ==
  <<DoubleQuote>>
  \o Concat([i \in 1..Len(text) |->
               IF text[i] = DoubleQuote THEN <<"\\", DoubleQuote>>
               ELSE IF text[i] = LineFeed THEN <<"\\", "n">>
               ELSE <<text[i]>>])
  \o <<DoubleQuote>>

Member(key, value) == <<DoubleQuote, key, DoubleQuote, ":">> \o value

\* JSON.stringify of an object from its members and of an array from its
\* items (the indentation of the third argument is white space and left out)
Object(members) == <<"{">> \o Join(members, ",") \o <<"}">>

Array(items) == <<"[">> \o Join(items, ",") \o <<"]">>

Triple(t) ==
  Object(<<Member("p10", String(t.p10)), Member("p50", String(t.p50)),
           Member("p90", String(t.p90))>>)

Range(r) == Object(<<Member("min", String(r.min)), Member("max", String(r.max))>>)

DriverJson(d) ==
  Object(<<Member("id", Quoted(d.id)),
           Member("signalId", Quoted(d.signalId)),
           Member("label", Quoted(d.label)),
           Member("severity", Quoted(<<d.severity>>)),
           Member("costCategory", Quoted(d.costCategory)),
           Member("impactType", Quoted(<<d.impactType>>)),
           Member("estimatedCostDeltaPct", Range(d.estimatedCostDeltaPct)),
           Member("estimatedScheduleDeltaDays", Range(d.estimatedScheduleDeltaDays)),
           Member("rationale", Quoted(d.rationale))>>)

ActionJson(a) ==
  Object(<<Member("id", Quoted(a.id)),
           Member("title", Quoted(a.title)),
           Member("owner", Quoted(<<a.owner>>)),
           Member("duePhase", Quoted(<<a.duePhase>>)),
           Member("leadTimeDays", String(a.leadTimeDays)),
           Member("priority", Quoted(<<a.priority>>)),
           Member("relatedSignalId", Quoted(a.relatedSignalId))>>)

AssumptionJson(b) ==
  Object(<<Member("title", Quoted(b.title)),
           Member("text", Quoted(b.text)),
           Member("type", Quoted(<<b.type>>))>>)

\* a property whose value is undefined is left out
EstimateJson(e) ==
  Object(<<Member("impactPct", Triple(e.impactPct)),
           Member("scheduleDays", Triple(e.scheduleDays))>>
         \o [i \in 1..Len(e.impactCostUsd) |-> Member("impactCostUsd", Triple(e.impactCostUsd[i]))]
         \o <<Member("methodology", Quoted(e.methodology)),
              Member("sampleSize", String(e.sampleSize))>>)

ContingencyJson(c) ==
  Object(<<Member("minPct", String(c.minPct)), Member("maxPct", String(c.maxPct)),
           Member("basis", Quoted(c.basis))>>)

Stringify(d) ==
  Object(<<Member("address", Quoted(d.address)),
           Member("version", Quoted(<<d.version>>)),
           Member("confidenceScore", String(d.confidenceScore)),
           Member("dataCompletenessPct", String(d.dataCompletenessPct)),
           Member("contingency", ContingencyJson(d.contingency)),
           Member("probabilisticEstimate", EstimateJson(d.probabilisticEstimate)),
           Member("costDrivers",
                  Array([i \in 1..Len(d.costDrivers) |-> DriverJson(d.costDrivers[i])])),
           Member("actions", Array([i \in 1..Len(d.actions) |-> ActionJson(d.actions[i])])),
           Member("bidAssumptions",
                  Array([i \in 1..Len(d.bidAssumptions) |->
                           AssumptionJson(d.bidAssumptions[i])]))>>)

\* the engine's state, which the page does not touch
ServerState ==
  <<config, inSignals, inWarnings, ResolverOutputs, returned, EstimatorVars, EngineVars,
    RouteVars, RngVars, trials, sda>>

\* handleSubmit, the response being ok: setData(payload)
SetData(payload) ==
  /\ pageData = NoData
  /\ pageData' = payload
  /\ UNCHANGED <<jsonFile, csvFile, ServerState, FormVars>>

\* the Export JSON button, rendered once data is set
ExportJson ==
  /\ pageData # NoData
  /\ jsonFile' = Stringify(pageData)
  /\ UNCHANGED <<pageData, csvFile, ServerState, FormVars>>

\* the Export CSV button
ExportCsv ==
  /\ pageData # NoData
  /\ csvFile' = toCsv(pageData)
  /\ UNCHANGED <<pageData, jsonFile, ServerState, FormVars>>

\* payloads of the V2 route: addresses without and with a comma,
PageAddresses == {<<"Site 7">>, <<"2415 Lincoln Way", ",", " Ames">>}

\* bands, two of them of one range,
PageContingencies ==
  {[minPct |-> 5, maxPct |-> 8, basis |-> <<"Low aggregate site risk">>],
   [minPct |-> 10, maxPct |-> 15, basis |-> <<"Elevated aggregate site risk">>],
   [minPct |-> 10, maxPct |-> 15,
    basis |-> <<"Elevated site risk", ",", " see ", DoubleQuote, "flood", DoubleQuote>>]}

FloodDriver ==
  [id |-> <<"driver-flood-zone">>, signalId |-> <<"flood-zone">>,
   label |-> <<"Flood Hazard Zone">>, severity |-> "high",
   costCategory |-> <<"Sitework", ",", " drainage">>, impactType |-> "capex",
   estimatedCostDeltaPct |-> [min |-> 4, max |-> 9],
   estimatedScheduleDeltaDays |-> [min |-> 10, max |-> 30],
   rationale |-> <<"Flood Hazard Zone is high">>]

SeismicDriver ==
  [id |-> <<"driver-seismic-sdc">>, signalId |-> <<"seismic-sdc">>,
   label |-> <<"Seismic Design Category">>, severity |-> "medium",
   costCategory |-> <<"Structure">>, impactType |-> "capex",
   estimatedCostDeltaPct |-> [min |-> 1, max |-> 3],
   estimatedScheduleDeltaDays |-> [min |-> 0, max |-> 5],
   rationale |-> <<"Seismic Design Category is medium">>]

PageDrivers == {<<>>, <<FloodDriver>>, <<FloodDriver, SeismicDriver>>}

FloodAction ==
  [id |-> <<"action-flood-zone">>, title |-> <<"Confirm flood elevation">>,
   owner |-> "Civil Engineer", duePhase |-> "Bid", leadTimeDays |-> 14,
   priority |-> "high", relatedSignalId |-> <<"flood-zone">>]

PageActions == {<<>>, <<FloodAction>>}

BaselineAssumption ==
  [title |-> <<"Subsurface conditions">>,
   text |-> <<"Bid assumes no rock excavation">>, type |-> "assumption"]

FloodAssumption ==
  [title |-> <<"Flood mitigation">>,
   text |-> <<"Allowance for flood proofing", LineFeed, "per survey">>, type |-> "allowance"]

PageAssumptions == {<<BaselineAssumption>>, <<BaselineAssumption, FloodAssumption>>}

\* and estimates without and with a baseline cost
PageEstimates ==
  {[impactPct |-> [p10 |-> 2, p50 |-> 5, p90 |-> 9],
    scheduleDays |-> [p10 |-> 3, p50 |-> 12, p90 |-> 28],
    impactCostUsd |-> usd, methodology |-> <<"Monte Carlo">>, sampleSize |-> 2000] :
     usd \in {<<>>, <<[p10 |-> 20000, p50 |-> 50000, p90 |-> 90000]>>}}

Payloads ==
  {[address |-> a, version |-> "v2", confidenceScore |-> 72, dataCompletenessPct |-> 82,
    contingency |-> c, probabilisticEstimate |-> e, costDrivers |-> d, actions |-> p,
    bidAssumptions |-> b] :
     a \in PageAddresses, c \in PageContingencies, e \in PageEstimates,
     d \in PageDrivers, p \in PageActions, b \in PageAssumptions}

InitPage ==
  /\ config = DefaultConfig
  /\ inSignals = <<>>
  /\ inWarnings = <<>>
  /\ ResolversIdle
  /\ EstimatorIdle
  /\ EngineIdle

NextPage ==
  \/ \E payload \in Payloads : SetData(payload)
  \/ ExportJson
  \/ ExportCsv

SpecPage == InitPage /\ [][NextPage]_vars

----------------------------------------------------------------------------
(* The submissions of the two pages *)

MaxSubmits == 3

\* what the V2 route answers with status 200: results for two addresses
FormPayloads ==
  {p \in Payloads :
     /\ p.costDrivers = <<>>
     /\ p.actions = <<>>
     /\ Len(p.bidAssumptions) = 1
     /\ p.contingency.minPct = 5
     /\ p.probabilisticEstimate.impactCostUsd = <<>>}

\* what the V1 route answers with status 200 when the geocoder has answered
\* and no other source has
HomeResult(address, geocode) ==
  AnalysisResult(address, geocode.value, USGSEmpty, FEMAOutside, SoilsEmpty, ElevationEmpty,
                 fetchFireHazard(geocode.value.location, Failure).value, <<>>)

HomePayloads ==
  {HomeResult(<<"A">>, geocodeAddress(<<"A">>, [k \in 1 .. 5 |-> Ames])),
   HomeResult(<<"A">>, geocodeAddress(<<"A">>, [k \in 1 .. 5 |-> Aspen]))}

\* a request that fails: a status that is not ok with or without an error
\* in its body, or a fetch that rejects
FormFailures ==
  {[kind |-> "status", error |-> <<"Address required">>],
   [kind |-> "status", error |-> <<>>],
   [kind |-> "network", error |-> <<"Failed to fetch">>]}

\* new Error(payload?.error ?? "Request failed"), or the error fetch rejected
\* with; the catch block keeps its message
MessageOf(failure) ==
  IF failure.error = <<>> THEN "Request failed" ELSE failure.error[1]

\* handleSubmit up to its await: setLoading(true); setError(null); and on the
\* V1 page setData(null)
Submit(page) ==
  /\ ~forms[page].loading
  /\ forms[page].submitted < MaxSubmits
  /\ forms' = [forms EXCEPT ![page] = [@ EXCEPT !.loading = TRUE, !.error = <<>>,
                                                !.submitted = @ + 1]]
  /\ homeData' = IF page = "v1" THEN <<>> ELSE homeData
  /\ UNCHANGED <<PageVars, ServerState>>

\* finally { setLoading(false) }
Finally(form) == [form EXCEPT !.loading = FALSE, !.settled = @ + 1]

\* the response is ok: setData(payload)
SubmitOk(page) ==
  /\ forms[page].loading
  /\ forms' = [forms EXCEPT ![page] = Finally(@)]
  /\ IF page = "v1"
     THEN /\ \E payload \in HomePayloads : homeData' = <<payload>>
          /\ UNCHANGED pageData
     ELSE /\ \E payload \in FormPayloads : pageData' = payload
          /\ UNCHANGED homeData
  /\ UNCHANGED <<jsonFile, csvFile, ServerState>>

\* the catch block: setError(message)
SetError(form, message) == [form EXCEPT !.error = <<message>>]

\* the response is not ok, or fetch rejects
SubmitFails(page, failure) ==
  /\ forms[page].loading
  /\ forms' = [forms EXCEPT ![page] = Finally(SetError(@, MessageOf(failure)))]
  /\ UNCHANGED <<homeData, PageVars, ServerState>>

NextSubmit ==
  \/ \E page \in Pages : Submit(page)
  \/ \E page \in Pages : SubmitOk(page)
  \/ \E page \in Pages, failure \in FormFailures : SubmitFails(page, failure)

SpecSubmit == InitPage /\ [][NextSubmit]_vars

----------------------------------------------------------------------------
(* Configuration faults *)

MissingSeverity(cfg) ==
  \E k \in DOMAIN cfg.costRules : DOMAIN cfg.costRules[k].deltas # {"high", "medium", "low"}

EmptyLadder(cfg) == Len(cfg.contingencyBands) = 0

\* C11: a configuration in which a rule's deltas map lacks a severity, or
\* whose band ladder is empty, is refused when it is loaded and so never makes
\* buildCostDrivers or buildContingency fail inside a request.
C11_NoRequestFault ==
  (MissingSeverity(config) \/ EmptyLadder(config)) =>
    thrown \cap {"buildCostDrivers", "buildContingency"} = {}

Inverted(range) == range.max < range.min

\* C12: a delta range with max < min is refused at validation, so no estimate
\* is ever sampled from a driver that carries such a range.
C12_NoInvertedRangeSampled ==
  \A i \in DOMAIN calls : \A k \in DOMAIN calls[i].args.costDrivers :
    /\ ~Inverted(calls[i].args.costDrivers[k].estimatedCostDeltaPct)
    /\ ~Inverted(calls[i].args.costDrivers[k].estimatedScheduleDeltaDays)

----------------------------------------------------------------------------
(* Frame of the engine *)

\* the call of a resolver that has returned before returns in this step
Again(name) == served[name] >= 1 /\ served'[name] > served[name]

\* C13: whatever calls are made, in any order and any number of times, the
\* configuration stays as it was loaded and the signal list as it was handed
\* over, and a function called again for the same signals returns what it
\* returned before.
C13_FrameAndRepeat ==
  [][/\ config' = loaded
     /\ inSignals' = received
     /\ Again("buildCostDrivers") => costDrivers' = costDrivers
     /\ Again("buildPMActions") => pmActions' = pmActions
     /\ Again("buildContingency") => contingency' = contingency
     /\ Again("buildBidAssumptions") => bidAssumptions' = bidAssumptions
     /\ Again("scoreConfidence") => confidence' = confidence
     /\ (Len(calls) >= 1 /\ Len(calls') > Len(calls)) => estimate' = estimate]_vars

\* every function has been called twice, for a flood-zone signal of severity
\* high, against a ladder that is not in descending order
C13_Witness ==
  /\ \A name \in Resolvers : served[name] = 2
  /\ Len(calls) >= 2
  /\ HasHigh(inSignals, "flood-zone")
  /\ Len(bidAssumptions) = Len(loaded.baselineBidAssumptions) + 1
  /\ config.contingencyBands[1].minScore < config.contingencyBands[2].minScore

----------------------------------------------------------------------------
(* The analyze route and its sources *)

EnvSources == Sources \ {"geocoder"}

\* the fetcher of the source has settled on something else than the
\* source's own answer
SourceFailed(s) ==
  fetched[s] # Pending /\ (fetched[s].state = "rejected" \/ fetched[s].fallback)

GeocodeSucceeded ==
  fetched["geocoder"] # Pending /\ fetched["geocoder"].state = "fulfilled"

C15_RetriedBeforeFallback ==
  \A s \in Sources : SourceFailed(s) => Len(fetched[s].delays) >= 1

Blank(b) == ~b.has \/ Len(TrimEnd(TrimStart(b.address))) = 0

\* C16: a body without an address, or with a blank one, is answered 400
\* "Address required" with no source queried; a geocoding in which every
\* variation and the last resort failed is answered 500 with the geocoder's
\* message and no environmental source queried; and no environmental source
\* is queried before the geocoder has answered.
C16_EarlyAnswers ==
  /\ (pc # "idle" /\ Blank(body)) =>
        /\ pc = "done"
        /\ response = [status |-> 400, error |-> "Address required"]
        /\ \A s \in Sources : fetched[s] = Pending
  /\ (fetched["geocoder"] # Pending /\ fetched["geocoder"].state = "rejected") =>
        /\ pc = "done"
        /\ response = [status |-> 500, error |-> GeocodeError]
        /\ \A s \in EnvSources : fetched[s] = Pending
  /\ \A s \in EnvSources : fetched[s] # Pending => GeocodeSucceeded

\* the four variations and the last resort have all been requested in vain
C16_Witness ==
  /\ pc = "done"
  /\ response.status = 500
  /\ fetched["geocoder"].state = "rejected"
  /\ fetched["geocoder"].requests = 5

----------------------------------------------------------------------------
(* The exports of the V2 page *)

\* the fields of the core output contract
Contract(d) ==
  [confidenceScore |-> d.confidenceScore, dataCompletenessPct |-> d.dataCompletenessPct,
   contingency |-> d.contingency, costDrivers |-> d.costDrivers, actions |-> d.actions,
   bidAssumptions |-> d.bidAssumptions, probabilisticEstimate |-> d.probabilisticEstimate]

\* C17: a downloaded JSON text and a downloaded CSV text each determine every
\* field of the core output contract of the result they were exported from:
\* no result with another contract exports to the same text.
C17_ExportsCarryContract ==
  \A other \in Payloads :
    /\ (jsonFile # NoFile /\ Stringify(other) = jsonFile) =>
          Contract(other) = Contract(pageData)
    /\ (csvFile # NoFile /\ toCsv(other) = csvFile) =>
          Contract(other) = Contract(pageData)

\* the JSON text alone determines the contract
JsonCarriesContract ==
  \A other \in Payloads :
    (jsonFile # NoFile /\ Stringify(other) = jsonFile) =>
       Contract(other) = Contract(pageData)

----------------------------------------------------------------------------
(* The action resolver and the contingency resolver *)

\* the place in the signal list of the signal an action relates to
SignalIndex(id) == CHOOSE i \in DOMAIN inSignals : inSignals[i].id = id

\* C18: every action other than the baseline action relates to a signal that
\* is high or medium and has a template, carries that template and has the
\* priority high for a high signal and medium for a medium one; a signal that
\* is low or unknown, or that has no template, has no action relating to it.
C18_ActionsOfEligibleSignals ==
  ActionsReturned =>
    /\ \A a \in DOMAIN pmActions :
         pmActions[a].id # <<"action", "baseline">> =>
           \E i \in DOMAIN inSignals :
             /\ inSignals[i].id = pmActions[a].relatedSignalId
             /\ inSignals[i].severity \in {"high", "medium"}
             /\ inSignals[i].id \in DOMAIN config.actionLibrary
             /\ pmActions[a].priority = inSignals[i].severity
             /\ pmActions[a].title = config.actionLibrary[inSignals[i].id].title
             /\ pmActions[a].owner = config.actionLibrary[inSignals[i].id].owner
    /\ \A i \in DOMAIN inSignals :
         (inSignals[i].severity \in {"low", "unknown"}
            \/ inSignals[i].id \notin DOMAIN config.actionLibrary) =>
           \A a \in DOMAIN pmActions : pmActions[a].relatedSignalId # inSignals[i].id

\* a high and a medium signal made an action each, next to a low signal with
\* a template and a high signal without one
C18_Witness ==
  /\ ActionsReturned
  /\ \E a, b \in DOMAIN pmActions :
       pmActions[a].priority = "high" /\ pmActions[b].priority = "medium"
  /\ \E i \in DOMAIN inSignals :
       inSignals[i].severity = "low" /\ inSignals[i].id \in DOMAIN config.actionLibrary

\* a high signal without a template, next to an action of another signal
C18_WitnessNoTemplate ==
  /\ ActionsReturned
  /\ pmActions # <<BaselineAction>>
  /\ \E i \in DOMAIN inSignals :
       inSignals[i].severity = "high" /\ inSignals[i].id \notin DOMAIN config.actionLibrary

\* C19: the actions are in descending order of priority rank, and actions of
\* equal priority are in the order of their signals in the signal list.
C19_ActionsSortedStable ==
  ActionsReturned =>
    \A a, b \in DOMAIN pmActions :
      a < b =>
        /\ priorityOrder(pmActions[a].priority) >= priorityOrder(pmActions[b].priority)
        /\ pmActions[a].priority = pmActions[b].priority =>
             SignalIndex(pmActions[a].relatedSignalId)
               < SignalIndex(pmActions[b].relatedSignalId)

\* three actions, two of them of equal priority, and one that the sort moved
\* ahead of an action whose signal comes earlier
C19_Witness ==
  /\ ActionsReturned
  /\ Len(pmActions) = 3
  /\ \E a, b \in DOMAIN pmActions : a < b /\ pmActions[a].priority = pmActions[b].priority
  /\ \E a, b \in DOMAIN pmActions :
       a < b /\ SignalIndex(pmActions[a].relatedSignalId)
                  > SignalIndex(pmActions[b].relatedSignalId)

\* the sum of the ranks over all signals: high 3, medium 2, low 1, unknown 0
ScoreOf(signals) ==
  3 * Cardinality({i \in DOMAIN signals : signals[i].severity = "high"})
  + 2 * Cardinality({i \in DOMAIN signals : signals[i].severity = "medium"})
  + Cardinality({i \in DOMAIN signals : signals[i].severity = "low"})

Reached(score) ==
  {k \in DOMAIN config.contingencyBands : config.contingencyBands[k].minScore <= score}

FieldsOf(band) == [minPct |-> band.minPct, maxPct |-> band.maxPct, basis |-> band.basis]

\* C20: buildContingency returns the fields of a band whose minScore is the
\* greatest among the bands with minScore <= score, the score being the sum
\* of the ranks of all signals; when no band has minScore <= score it returns
\* the fields of a band with the smallest minScore.
C20_BandOfScore ==
  ContingencyReturned =>
    IF Reached(ScoreOf(inSignals)) # {}
    THEN \E k \in Reached(ScoreOf(inSignals)) :
           /\ \A m \in Reached(ScoreOf(inSignals)) :
                config.contingencyBands[m].minScore <= config.contingencyBands[k].minScore
           /\ contingency = FieldsOf(config.contingencyBands[k])
    ELSE \E k \in DOMAIN config.contingencyBands :
           /\ config.contingencyBands[k].minScore = LowestMinScore
           /\ contingency = FieldsOf(config.contingencyBands[k])

\* a score that passes the lower band but not the upper one, an unknown
\* signal and a signal without rule or template adding to it, against a
\* ladder configured with the upper band first
C20_Witness ==
  /\ ContingencyReturned
  /\ Len(config.contingencyBands) = 2
  /\ config.contingencyBands[1].minScore > ScoreOf(inSignals)
  /\ config.contingencyBands[2].minScore <= ScoreOf(inSignals)
  /\ config.contingencyBands[2].minScore > 0
  /\ contingency = FieldsOf(config.contingencyBands[2])
  /\ \E i \in DOMAIN inSignals : inSignals[i].severity = "unknown"
  /\ \E i \in DOMAIN inSignals :
       inSignals[i].id = "site-slope" /\ inSignals[i].severity # "unknown"

\* no band is reached: the score is below every threshold
C20_WitnessBelow ==
  /\ ContingencyReturned
  /\ Reached(ScoreOf(inSignals)) = {}
  /\ ScoreOf(inSignals) > 0

----------------------------------------------------------------------------
(* The bid assumptions *)

AssumptionsReturned == "buildBidAssumptions" \in returned

FloodIsHigh ==
  \E i \in DOMAIN inSignals :
    inSignals[i].id = "flood-zone" /\ inSignals[i].severity = "high"

FireIsHigh ==
  \E i \in DOMAIN inSignals :
    inSignals[i].id = "wildfire-risk" /\ inSignals[i].severity = "high"

\* C21: buildBidAssumptions returns the baseline assumptions in their
\* configured order, then the highFlood clause exactly when a flood-zone
\* signal is high, then the highFire clause exactly when a wildfire-risk
\* signal is high, and nothing else.
C21_BaselineThenClauses ==
  AssumptionsReturned =>
    bidAssumptions =
      config.baselineBidAssumptions
        \o (IF FloodIsHigh THEN <<config.conditionalBidAssumptions.highFlood>> ELSE <<>>)
        \o (IF FireIsHigh THEN <<config.conditionalBidAssumptions.highFire>> ELSE <<>>)

\* both clauses after a baseline of two, with a third high signal that adds
\* nothing
C21_Witness ==
  /\ AssumptionsReturned
  /\ Len(config.baselineBidAssumptions) = 2
  /\ Len(bidAssumptions) = 4
  /\ \E i \in DOMAIN inSignals :
       inSignals[i].id = "site-slope" /\ inSignals[i].severity = "high"

\* a medium flood signal and a high fire signal: the fire clause alone
C21_WitnessFireOnly ==
  /\ AssumptionsReturned
  /\ Len(bidAssumptions) = Len(config.baselineBidAssumptions) + 1
  /\ FireIsHigh
  /\ \E i \in DOMAIN inSignals :
       inSignals[i].id = "flood-zone" /\ inSignals[i].severity = "medium"

----------------------------------------------------------------------------
(* The confidence score *)

KnownCount ==
  Cardinality({i \in DOMAIN inSignals :
                 inSignals[i].value \notin {"Not available", "Unknown"}})

\* r = round(num / den) for den > 0, a half going up: r <= num/den + 1/2 < r + 1
IsRounded(r, num, den) ==
  2 * r * den <= 2 * num + den /\ 2 * num + den < 2 * (r + 1) * den

WarningPenalty == IF 6 * Len(inWarnings) < 30 THEN 6 * Len(inWarnings) ELSE 30

\* ten times 100 - warningPenalty - 0.4 * max(0, 100 - completeness)
RawTenths(completeness) ==
  1000 - 10 * WarningPenalty - 4 * (IF completeness < 100 THEN 100 - completeness ELSE 0)

\* C22: for a non-empty signal list, dataCompletenessPct is 100 * known /
\* total rounded, and confidenceScore is 100 - min(6 * warnings, 30) - 0.4 *
\* max(0, 100 - dataCompletenessPct) rounded, or 35 if that is less; so six
\* warnings and more cost what five cost.
C22_ConfidenceFormula ==
  (ConfidenceReturned /\ Len(inSignals) > 0) =>
    /\ IsRounded(confidence.dataCompletenessPct, 100 * KnownCount, Len(inSignals))
    /\ \E r \in 0..100 :
         /\ IsRounded(r, RawTenths(confidence.dataCompletenessPct), 10)
         /\ confidence.confidenceScore = IF r < 35 THEN 35 ELSE r
    /\ Len(inWarnings) >= 5 =>
         \E r \in 0..100 :
           /\ IsRounded(r, 700 - 4 * (100 - confidence.dataCompletenessPct), 10)
           /\ confidence.confidenceScore = IF r < 35 THEN 35 ELSE r

\* two of three signals known and six warnings: 67 and 100 - 30 - 13.2,
\* rounded to 57
C22_Witness ==
  /\ ConfidenceReturned
  /\ Len(inSignals) = 3
  /\ KnownCount = 2
  /\ Len(inWarnings) = 6
  /\ confidence = [confidenceScore |-> 57, dataCompletenessPct |-> 67]

----------------------------------------------------------------------------
(* The seed and the stream of the generator *)

\* bit b of a 16-bit value
Bit(x, b) == (x \div (2 ^ b)) % 2

\* bit b of x XOR y, in its place
XorBit(x, y, b) == ((Bit(x, b) + Bit(y, b)) % 2) * (2 ^ b)

\* x XOR y on 16 bits, bit by bit
XorBits(x, y) ==
  XorBit(x, y, 0) + XorBit(x, y, 1) + XorBit(x, y, 2) + XorBit(x, y, 3)
  + XorBit(x, y, 4) + XorBit(x, y, 5) + XorBit(x, y, 6) + XorBit(x, y, 7)
  + XorBit(x, y, 8) + XorBit(x, y, 9) + XorBit(x, y, 10) + XorBit(x, y, 11)
  + XorBit(x, y, 12) + XorBit(x, y, 13) + XorBit(x, y, 14) + XorBit(x, y, 15)

\* h * 16777619 mod 2^32 for h = hi * 2^16 + lo, 16777619 = 256 * 2^16 + 403
TimesPrime(hi, lo) ==
  <<(403 * hi + 256 * lo + (403 * lo) \div 65536) % 65536, (403 * lo) % 65536>>

RECURSIVE Fnv(_, _, _)
\* the FNV-1a fold of the characters key[i], key[i + 1], ... into h
Fnv(h, key, i) ==
  IF i > Len(key) THEN h
  ELSE Fnv(TimesPrime(h[1], XorBits(h[2], key[i])), key, i + 1)

\* 2166136261 = 33052 * 2^16 + 40389
SeedOf(key) == Fnv(<<33052, 40389>>, key, 1)

\* (1664525 * s + 1013904223) mod 2^32 for s = hi * 2^16 + lo, with
\* 1664525 = 25 * 2^16 + 26125 and 1013904223 = 15470 * 2^16 + 62303
Lcg(s) ==
  <<(26125 * s[1] + 25 * s[2] + 15470 + (26125 * s[2] + 62303) \div 65536) % 65536,
    (26125 * s[2] + 62303) % 65536>>

\* the states behind the emitted values are the stream of the generator
\* that starts at state0, and every emitted value lies in [0, 1)
StreamFrom(state0) ==
  \A k \in DOMAIN emitted :
    /\ emitted[k] = Lcg(IF k = 1 THEN state0 ELSE emitted[k - 1])
    /\ RngValue(emitted[k]) >= 0
    /\ RngValue(emitted[k]) < Half

\* C23 as stated: the stream starts at the hash of the seed key, whatever
\* the hash, 0 included.
C23_StreamOfEverySeed == StreamFrom(SeedOf(rngKey))

\* C23: the generator is created for the FNV-1a hash of the seed key, and
\* the stream is state_k = (1664525 * state_(k-1) + 1013904223) mod 2^32 with
\* state_0 the hash, except that state_0 is 1 when the hash is 0; the k-th
\* value is state_k / 2^32 and lies in [0, 1).
C23_StreamOfSeedOrOne ==
  StreamFrom(IF SeedOf(rngKey) = <<0, 0>> THEN <<0, 1>> ELSE SeedOf(rngKey))

\* a seed key whose hash is 0, and the values of its generator
C23_Witness ==
  /\ Len(rngKey) = 3
  /\ SeedOf(rngKey) = <<0, 0>>
  /\ Len(emitted) = MaxEmitted
  /\ emitted[1] = <<15496, 22892>>

----------------------------------------------------------------------------
(* The percentiles and the dollar figures of the estimator *)

\* the trial totals of the invocation with these arguments
TotalsOf(args) ==
  TrialLoop(args.costDrivers, args.sampleSize, 0, createRng(hashSeed(args.seedKey)),
            <<>>, <<>>)

\* the element at index i (from 0) of the list in ascending order: i of the
\* elements or fewer are below it, more than i are below or equal to it
SortedAt(totals, i) ==
  CHOOSE v \in {totals[j] : j \in DOMAIN totals} :
    /\ Cardinality({j \in DOMAIN totals : totals[j] < v}) <= i
    /\ Cardinality({j \in DOMAIN totals : totals[j] <= v}) > i

\* clamp(floor((p / 100) * n), 0, n - 1)
RankIndex(p, n) ==
  IF (p * n) \div 100 > n - 1 THEN n - 1
  ELSE IF (p * n) \div 100 < 0 THEN 0
  ELSE (p * n) \div 100

\* r is v rounded to 2 decimals, a half going up (both in thousandths)
IsRound2(r, v) == r % (Unit \div 100) = 0 /\ 2 * r - (Unit \div 100) <= 2 * v
                  /\ 2 * v < 2 * r + (Unit \div 100)

\* a reported triple holds the nearest-rank percentiles of the totals
NearestRank(triple, totals) ==
  /\ IsRound2(triple.p10, SortedAt(totals, RankIndex(10, Len(totals))))
  /\ IsRound2(triple.p50, SortedAt(totals, RankIndex(50, Len(totals))))
  /\ IsRound2(triple.p90, SortedAt(totals, RankIndex(90, Len(totals))))
  /\ Len(totals) = 1 => triple.p10 = triple.p50 /\ triple.p50 = triple.p90

\* C24: for sampleSize n >= 1, each reported percentile p of 10, 50 and 90 is
\* the element at index clamp(floor(p * n / 100), 0, n - 1) of the n trial
\* totals in ascending order, rounded to 2 decimals; with n = 1 the three
\* are equal.
C24_NearestRankPercentiles ==
  (Len(calls) > 0 /\ inArgs.sampleSize >= 1) =>
    /\ Len(TotalsOf(inArgs).pctTotals) = inArgs.sampleSize
    /\ Len(TotalsOf(inArgs).dayTotals) = inArgs.sampleSize
    /\ NearestRank(estimate.impactPct, TotalsOf(inArgs).pctTotals)
    /\ NearestRank(estimate.scheduleDays, TotalsOf(inArgs).dayTotals)

\* two trials with different totals, of which the median is the upper one,
\* and a total that the rounding changed
C24_Witness ==
  /\ Len(calls) > 0
  /\ inArgs.sampleSize = 2
  /\ estimate.impactPct.p10 < estimate.impactPct.p50
  /\ estimate.impactPct.p50 = estimate.impactPct.p90
  /\ \E j \in DOMAIN TotalsOf(inArgs).pctTotals :
       TotalsOf(inArgs).pctTotals[j] % (Unit \div 100) # 0

\* the closure state a generator for the seed key starts from
StartOf(key) == IF SeedOf(key) = <<0, 0>> THEN <<0, 1>> ELSE SeedOf(key)

RECURSIVE LcgTimes(_, _)
\* the state after d calls of the generator
LcgTimes(s, d) == IF d = 0 THEN s ELSE LcgTimes(Lcg(s), d - 1)

\* the samples of one trial that call the generator: those of a range with
\* max > min
DrawsPerTrial(drivers) ==
  Cardinality({k \in DOMAIN drivers :
                 drivers[k].estimatedCostDeltaPct.max > drivers[k].estimatedCostDeltaPct.min})
  + Cardinality({k \in DOMAIN drivers :
                   drivers[k].estimatedScheduleDeltaDays.max
                     > drivers[k].estimatedScheduleDeltaDays.min})

\* usd is round((pct / 100) * baseline, 2): pct in thousandths of a percent,
\* usd in thousandths of a dollar, a half going up
IsUsd(usd, pct, baseline) ==
  /\ usd % (Unit \div 100) = 0
  /\ 100 * (2 * usd - (Unit \div 100)) <= 2 * pct * baseline
  /\ 2 * pct * baseline < 100 * (2 * usd + (Unit \div 100))

\* C25: the estimate has impactCostUsd exactly when a baselineCostUsd above
\* 0 was supplied; each of its points is the same point of the reported
\* impactPct scaled by the baseline and rounded to 2 decimals; and the
\* generator was called by the samples of the trials alone, with or without
\* a baseline.
C25_DollarsScaledFromPercent ==
  Len(calls) > 0 =>
    /\ estimate.hasImpactCostUsd <=>
         (inArgs.baselineCostUsd # NoBaseline /\ inArgs.baselineCostUsd > 0)
    /\ estimate.hasImpactCostUsd =>
         /\ IsUsd(estimate.impactCostUsd.p10, estimate.impactPct.p10, inArgs.baselineCostUsd)
         /\ IsUsd(estimate.impactCostUsd.p50, estimate.impactPct.p50, inArgs.baselineCostUsd)
         /\ IsUsd(estimate.impactCostUsd.p90, estimate.impactPct.p90, inArgs.baselineCostUsd)
    /\ rngState = LcgTimes(StartOf(inArgs.seedKey),
                           inArgs.sampleSize * DrawsPerTrial(inArgs.costDrivers))

\* dollar figures for a baseline of 250 over the full sample, one of them
\* changed by the rounding
C25_Witness ==
  /\ Len(calls) > 0
  /\ inArgs.sampleSize = MaxSample
  /\ inArgs.baselineCostUsd = 250
  /\ estimate.hasImpactCostUsd
  /\ estimate.impactCostUsd.p10 < estimate.impactCostUsd.p90
  /\ (estimate.impactPct.p50 * 250) % Unit # 0

\* a negative baseline: no dollar figures
C25_WitnessNegative ==
  /\ Len(calls) > 0
  /\ inArgs.baselineCostUsd < NoBaseline
  /\ ~estimate.hasImpactCostUsd
  /\ estimate.impactPct.p90 > 0

----------------------------------------------------------------------------
(* The trials of the estimator *)

\* draw j of a trial, made with the generator in state rng: the cost sample
\* of driver (j + 1) / 2 when j is odd, the schedule sample of driver j / 2
\* when j is even
DrawOf(drivers, j, rng) ==
  IF j % 2 = 1 THEN CostSample(drivers[(j + 1) \div 2], rng)
  ELSE ScheduleSample(drivers[j \div 2], rng)

RECURSIVE StateBefore(_, _, _)
\* the state of the generator before draw j of a trial that began in state rng
StateBefore(drivers, j, rng) ==
  IF j = 1 THEN rng
  ELSE DrawOf(drivers, j - 1, StateBefore(drivers, j - 1, rng)).rng

RECURSIVE SumOfDraws(_, _, _)
\* the sum of the draws j, j + 2, j + 4, ... of a trial that began in state rng
SumOfDraws(drivers, j, rng) ==
  IF j > 2 * Len(drivers) THEN 0
  ELSE DrawOf(drivers, j, StateBefore(drivers, j, rng)).value + SumOfDraws(drivers, j + 2, rng)

\* every range of every driver has min <= max
RangesOrdered(drivers) ==
  \A k \in DOMAIN drivers :
    /\ drivers[k].estimatedCostDeltaPct.min <= drivers[k].estimatedCostDeltaPct.max
    /\ drivers[k].estimatedScheduleDeltaDays.min <= drivers[k].estimatedScheduleDeltaDays.max

RECURSIVE SumOver(_, _)
\* the sum of the numbers of a sequence
SumOver(numbers, k) ==
  IF k > Len(numbers) THEN 0 ELSE numbers[k] + SumOver(numbers, k + 1)

CostMins(drivers) == SumOver([k \in DOMAIN drivers |-> drivers[k].estimatedCostDeltaPct.min], 1)

CostMaxs(drivers) == SumOver([k \in DOMAIN drivers |-> drivers[k].estimatedCostDeltaPct.max], 1)

DayMins(drivers) == SumOver([k \in DOMAIN drivers |-> drivers[k].estimatedScheduleDeltaDays.min], 1)

DayMaxs(drivers) == SumOver([k \in DOMAIN drivers |-> drivers[k].estimatedScheduleDeltaDays.max], 1)

\* the number of trials the call is to make: the sampleSize argument, 2000
\* when it is left out
TrialsAsked == IF inArgs.sampleSize = NoSampleSize THEN 2000 ELSE inArgs.sampleSize

\* the last trial made drew, for each driver in order, its cost sample and
\* then its schedule sample, and its totals are the sums of those samples
LastTrialInOrder ==
  /\ trials.pctTotals[trials.i] = SumOfDraws(inArgs.costDrivers, 1, trials.before)
  /\ trials.dayTotals[trials.i] = SumOfDraws(inArgs.costDrivers, 2, trials.before)
  /\ rngState = StateBefore(inArgs.costDrivers, 2 * Len(inArgs.costDrivers) + 1, trials.before)

\* the totals of the last trial lie between the sums of the minima and of the maxima
LastTrialInRange ==
  /\ CostMins(inArgs.costDrivers) <= trials.pctTotals[trials.i]
  /\ trials.pctTotals[trials.i] <= CostMaxs(inArgs.costDrivers)
  /\ DayMins(inArgs.costDrivers) <= trials.dayTotals[trials.i]
  /\ trials.dayTotals[trials.i] <= DayMaxs(inArgs.costDrivers)

\* C26: a call makes exactly sampleSize trials, 2000 when the argument is left
\* out, and so ends with sampleSize totals per dimension and reports that
\* number as sampleSize; each trial draws, driver by driver in the order of
\* the list, one cost sample and then one schedule sample and pushes their
\* sums; when every range has min <= max each total lies between the sum of
\* the minima and the sum of the maxima
C26_TrialsAndTotals ==
  /\ trials.phase # "idle" =>
        /\ trials.sampleSize = TrialsAsked
        /\ trials.i <= TrialsAsked
        /\ Len(trials.pctTotals) = trials.i
        /\ Len(trials.dayTotals) = trials.i
        /\ trials.i > 0 => LastTrialInOrder
        /\ trials.i > 0 /\ RangesOrdered(inArgs.costDrivers) => LastTrialInRange
  /\ trials.phase = "done" =>
        /\ Len(trials.pctTotals) = TrialsAsked
        /\ Len(trials.dayTotals) = TrialsAsked
        /\ estimate.sampleSize = Len(trials.pctTotals)

\* a call without sampleSize that has returned after 2000 trials over two drivers
C26_Witness ==
  /\ trials.phase = "done"
  /\ inArgs.sampleSize = NoSampleSize
  /\ Len(inArgs.costDrivers) = 2
  /\ Len(trials.pctTotals) = 2000
  /\ estimate.sampleSize = 2000

\* a trial over a driver list with an inverted range: the totals are pushed all the same
C26_WitnessInverted ==
  /\ trials.phase = "done"
  /\ trials.i = MaxSample
  /\ ~RangesOrdered(inArgs.costDrivers)

----------------------------------------------------------------------------
(* The retries of sdaQuery *)

\* the first request among the first n that the service answers with a body,
\* 0 when it answers none of them
FirstAnswered(script, n) ==
  IF \E k \in 1 .. n : script[k].kind = "json"
  THEN CHOOSE k \in 1 .. n :
         /\ script[k].kind = "json"
         /\ \A j \in 1 .. k - 1 : script[j].kind # "json"
  ELSE 0

\* requests many requests with a wait of 100 * 2.5^attempt milliseconds
\* between one and the next, and nothing after the last
RequestsAndWaits(requests) ==
  [j \in 1 .. 2 * requests - 1 |->
     IF j % 2 = 1 THEN [kind |-> "request", ms |-> 0]
     ELSE [kind |-> "wait", ms |-> (100 * (5 ^ (j \div 2 - 1))) \div (2 ^ (j \div 2 - 1))]]

\* the error of the request the service failed
ErrorOfRequest(r) ==
  IF "message" \in DOMAIN r THEN r.message ELSE "fetch failed"

SdaSettled == sda.phase \in {"fulfilled", "rejected"}

\* the requests issued so far
SdaRequests == Cardinality({j \in DOMAIN sda.log : sda.log[j].kind = "request"})

\* the call returned the rows of the first request that was answered, having
\* issued no request after it
ReturnedFirstAnswer ==
  /\ FirstAnswered(sda.script, sda.maxRetries) # 0
  /\ sda.value = sda.script[FirstAnswered(sda.script, sda.maxRetries)].data
  /\ sda.log = RequestsAndWaits(FirstAnswered(sda.script, sda.maxRetries))

\* the call threw after maxRetries requests that all failed: the error of the
\* last of them, or with maxRetries = 0 an error without any request
ThrewLastError ==
  /\ FirstAnswered(sda.script, sda.maxRetries) = 0
  /\ IF sda.maxRetries = 0
     THEN sda.log = <<>> /\ sda.error = "SDA query failed after retries"
     ELSE /\ sda.log = RequestsAndWaits(sda.maxRetries)
          /\ sda.error = ErrorOfRequest(sda.script[sda.maxRetries])

\* the function the soils fetcher calls settles as the call followed step by step
SettledAsSdaQuery ==
  /\ sdaQuery(sda.script, sda.maxRetries).state = sda.phase
  /\ sdaQuery(sda.script, sda.maxRetries).requests = SdaRequests
  /\ Len(sdaQuery(sda.script, sda.maxRetries).delays) = Len(sda.log) - SdaRequests
  /\ sda.phase = "fulfilled" => sdaQuery(sda.script, sda.maxRetries).value = sda.value
  /\ sda.phase = "rejected" => sdaQuery(sda.script, sda.maxRetries).error = sda.error

SdaSafe ==
  /\ SdaRequests <= sda.maxRetries
  /\ sda.phase = "fulfilled" => ReturnedFirstAnswer
  /\ sda.phase = "rejected" => ThrewLastError
  /\ SdaSettled => SettledAsSdaQuery

C27_WitnessNoAttempt ==
  /\ sda.phase = "rejected"
  /\ sda.maxRetries = 0
  /\ sda.log = <<>>

\* answered on the second of three attempts
C27_WitnessRetried ==
  /\ sda.phase = "fulfilled"
  /\ sda.maxRetries = 3
  /\ Len(sda.log) = 3
  /\ sda.value = SoilRows

----------------------------------------------------------------------------
(* The fetchers of the route never reject *)

\* C28: in the analyze route none of the five fetchers of the environmental
\* sources rejects, whatever its source answers; so no catch handler of the
\* route pushes a warning, and the warnings of every 200 response are empty.
C28_FetchersNeverReject ==
  /\ \A s \in EnvSources : fetched[s] # Pending => fetched[s].state = "fulfilled"
  /\ routeWarnings = <<>>
  /\ (pc = "done" /\ response.status = 200) => response.warnings = <<>>

\* a 200 response without warnings although the requests of all five
\* sources failed, the soils fetcher after seven requests
C28_Witness ==
  /\ pc = "done"
  /\ response.status = 200
  /\ response.warnings = <<>>
  /\ \A s \in EnvSources : fetched[s].fallback
  /\ fetched["usgs"].value = USGSEmpty
  /\ fetched["soils"].requests = 6

----------------------------------------------------------------------------
(* A failed flood lookup reads as zone X *)

\* the flood layer did not answer, or answered without a feature that has a zone
NoFloodZone(r) == r.kind = "fail" \/ r.data.FLD_ZONE \in {Undefined, ""}

\* the flood fetcher settles in this step on an answer without a zone
FemaSettlesWithoutZone ==
  /\ fetched["fema"] = Pending
  /\ \E r \in FemaResponses : NoFloodZone(r) /\ fetched'["fema"] = fetchFEMAFloodZone(r)

\* the flood-zone signal of the response as scoreConfidence is handed it
FloodZoneSignal == [response.signals[1] EXCEPT !.value = @[1]]

\* the response's flood-zone signal is that of a mapped zone X, and
\* scoreConfidence counts it as known
ReadsAsZoneX ==
  /\ response.signals[1].id = "flood-zone"
  /\ response.signals[1].value = <<"X">>
  /\ response.signals[1].severity = "low"
  /\ response.signals[1] = FloodSignals([floodZone |-> "X", staticBfe |-> NoNumber])[1]
  /\ scoreConfidence(<<FloodZoneSignal>>, <<>>).dataCompletenessPct = 100

\* C29: when the request to the flood layer fails or returns no feature,
\* fetchFEMAFloodZone returns zone "X"; the flood-zone signal of the response
\* then has value "X" and severity low, never unknown, as for a mapped zone
\* X, and scoreConfidence counts it as known.
C29_FailedFloodIsZoneX ==
  /\ [][FemaSettlesWithoutZone =>
          fetched'["fema"].state = "fulfilled" /\ fetched'["fema"].value.floodZone = "X"]_vars
  /\ []((pc = "done" /\ response.status = 200 /\ fetched["fema"].value.floodZone = "X")
          => ReadsAsZoneX)

\* the request to the flood layer failed and the response carries zone X
C29_Witness ==
  /\ pc = "done"
  /\ response.status = 200
  /\ fetched["fema"].fallback
  /\ response.signals[1].value = <<"X">>
  /\ response.signals[1].severity = "low"

\* the flood layer answered without a feature
C29_WitnessNoFeature ==
  /\ pc = "done"
  /\ response.status = 200
  /\ ~fetched["fema"].fallback
  /\ fetched["fema"].value = FEMAOutside
  /\ response.signals[1].value = <<"X">>

\* the flood layer answered with a mapped zone X
C29_WitnessMapped ==
  /\ pc = "done"
  /\ response.status = 200
  /\ fetched["fema"].value.zoneSubtype = "AREA OF MINIMAL FLOOD HAZARD"
  /\ response.signals[1].value = <<"X">>

----------------------------------------------------------------------------
(* What a page shows after a submission *)

\* the state `data` of the page is set
HasData(page) == IF page = "v1" THEN homeData # <<>> ELSE pageData # NoData

\* every submission of the page has settled, and there has been one
SubmissionsSettled(page) ==
  forms[page].submitted > 0 /\ forms[page].settled = forms[page].submitted

\* C30: on the V1 and on the V2 page, after any sequence of submissions (each
\* begun with none in flight), once a submission has settled the error and
\* the result are not both set (a failed submission leaves no earlier result
\* on display) and loading is false, on success and on failure.
C30_ErrorOrResult ==
  \A page \in Pages :
    SubmissionsSettled(page) =>
      /\ ~forms[page].loading
      /\ ~(forms[page].error # <<>> /\ HasData(page))

\* the V1 page alone: a failed submission shows its error and no result
HomeErrorOrResult ==
  SubmissionsSettled("v1") =>
    /\ ~forms["v1"].loading
    /\ ~(forms["v1"].error # <<>> /\ HasData("v1"))

\* loading is false whenever no submission is in flight
LoadingWhileInFlight ==
  \A page \in Pages : forms[page].loading <=> forms[page].settled < forms[page].submitted

\* the V1 page after a success followed by a failure
HomeWitness ==
  /\ forms["v1"].settled = 2
  /\ forms["v1"].error = <<"Address required">>
  /\ homeData = <<>>

====
